---- MODULE Spec2Model ----
(***************************************************************************)
(* Daily-quiz generation and answer validation of get-quizzed.             *)
(*                                                                         *)
(* The model follows the latest handler revision (src/unnamed/part_001):   *)
(* one Lambda handler that serves POST /validate-star, POST /validate-code *)
(* and the generation fall-through, over one DynamoDB table keyed by the   *)
(* calendar day.  Every `await` of the handler is a step boundary: the     *)
(* requests of different invocations interleave only through the table.    *)
(***************************************************************************)
EXTENDS Integers, Sequences, FiniteSets, TLC

(***************************************************************************)
(* Bounds of the model.                                                    *)
(***************************************************************************)
MaxRequests == 3
MaxQuestions == 2
MaxTicks == 1
MaxDay == 7
MaxLen == 5
MaxTyped == 3

Slots == {1, 2}
Texts == {1, 2}
Answers == {1}

(***************************************************************************)
(* Program constants.                                                      *)
(***************************************************************************)
DayLen == 86400
TTL == 7 * 24 * 60 * 60
SearchLimit == 5
HistoryLimit == 7
FallbackLimit == 1
PassScore == 8
STEPS == <<"S", "T", "A", "R">>
StepSet == {STEPS[i] : i \in 1..Len(STEPS)}
Branches == {"q1", "q2_mcq", "q2_star", "q3_mcq", "q3_code"}

TickLen == DayLen \div 2
MaxTime == MaxTicks * TickLen
DateKeys == 0..(MaxTime \div DayLen)
Days == 0..MaxDay

(***************************************************************************)
(* Values.  JavaScript null is the record Null; an absent table item is    *)
(* NoItem.                                                                 *)
(***************************************************************************)
Null == [isNull |-> TRUE]
NoItem == [absent |-> TRUE]
NotAList == 0 - 1
BatchLens == {NotAList, 0, MaxQuestions}

(* Request fields a client may leave out: a missing or empty `date`, a     *)
(* missing `questionIndex`.                                                *)
NoDate == 0 - 1
NoIndex == 0 - 1
DateArgs == DateKeys \cup {NoDate}
IndexArgs == (0..(MaxQuestions - 1)) \cup {NoIndex}

(* A grading reply is whatever JSON the model returned: its score is a     *)
(* number, or (ScoreText) a string that is no number, such as "8/10".      *)
(* NoText is a null rewrite.                                               *)
ScoreText == 0 - 2
NoText == 0
GradeReplies ==
    {[score |-> 5, feedback |-> 1, better |-> 1],
     [score |-> 8, feedback |-> 1, better |-> NoText],
     [score |-> ScoreText, feedback |-> 1, better |-> NoText]}

VARIABLES now, kb, cache, req, issued, last, lim, ui

vars == <<now, kb, cache, req, issued, last, lim, ui>>

(* Variant: a key that is always the first day.                            *)
FirstDay(t) == 0

Today(t) == t \div DayLen

Idle == [route |-> "none", pc |-> "idle"]

NoCalls == [get |-> 0, embed |-> 0, search |-> 0, llm |-> 0, put |-> 0, upd |-> 0]

Free(r) == req[r].pc = "idle"

InFlight == {r \in Slots : ~Free(r)}

(* Slots are interchangeable: a new invocation takes the lowest free one;  *)
(* lim is the number of invocations that may run at the same time.         *)
NextSlot(r) ==
    /\ Free(r)
    /\ \A s \in Slots : s < r => ~Free(s)
    /\ Cardinality(InFlight) < lim
    /\ issued < MaxRequests

Bump(calls, f, n) == [calls EXCEPT ![f] = @ + n]

Begin(r, q) ==
    /\ req' = [req EXCEPT ![r] = q]
    /\ issued' = issued + 1
    /\ last' = [status |-> 0]

(***************************************************************************)
(* The response of a finished invocation: 200 with a body, or the 500 of   *)
(* the handler's catch with the error's kind.  `last` holds it, with the   *)
(* invocation's final locals, until the next invocation starts; `earlier`  *)
(* is the response of an invocation that returned while this one ran.      *)
(***************************************************************************)
NoResponse == [status |-> 0]

(* The STAR drill component, before it is mounted.                         *)
NoUI == [mounted |-> FALSE]

Ok(r, q, body) == [status |-> 200, body |-> body, did |-> q, earlier |-> last]

Error(r, q, e) == [status |-> 500, body |-> e, did |-> q, earlier |-> last]

(***************************************************************************)
(* The knowledge base: the records of each category.                       *)
(***************************************************************************)
FullCorpus == [leetcode |-> {"L1"}, resume |-> {"R1"}, note |-> {"N1"}]

(* The knowledge base is built outside the handler: it holds records of    *)
(* every category, or no resume record.                                    *)
Corpora == {FullCorpus, [FullCorpus EXCEPT !.resume = {}]}

(* A knowledge base with more than one resume record.                      *)
BigCorpus == [FullCorpus EXCEPT !.resume = {"R1", "R2"}]

(* Variant: a query without limit.                                         *)
AllResults(rows) == {rows}

(* Variant: a query that finds no row.                                     *)
NoResults(rows) == {{}}

SearchResults(rows) == {s \in SUBSET rows : Cardinality(s) <= SearchLimit}

AnyResults(rows) ==
    IF rows = {} THEN {{}} ELSE {s \in SUBSET rows : Cardinality(s) = FallbackLimit}

(***************************************************************************)
(* Quiz assembly.                                                          *)
(***************************************************************************)
EmptyStarProgress == [S |-> Null, T |-> Null, A |-> Null, R |-> Null]

(* A question object as the completion returned it.  The questions of     *)
(* reply 2 carry a userProgress field of their own.                        *)
Carried == [S |-> [score |-> 10], T |-> Null, A |-> Null, R |-> Null]

Synthesized(text) ==
    IF text = 2 THEN [q |-> text, userProgress |-> Carried] ELSE [q |-> text]

(* { ...q, userProgress: value }                                           *)
Spread(q, value) ==
    [k \in DOMAIN q \cup {"userProgress"} |-> IF k = "userProgress" THEN value ELSE q[k]]

(* Variant: a question that keeps the progress field it came with.         *)
StarQuestionKept(text) ==
    IF "userProgress" \in DOMAIN Synthesized(text)
    THEN Synthesized(text)
    ELSE Spread(Synthesized(text), EmptyStarProgress)

StarQuestion(text) == Spread(Synthesized(text), EmptyStarProgress)

CodeQuestion(text) == Spread(Synthesized(text), Null)

AssembleQuiz(today, lc, res, note, text, nStar, nCode) ==
    [date |-> today,
     leetcode |-> [problem |-> lc, ai_question |-> text],
     resume |-> [context |-> res, mcq |-> text,
                 questions |-> [i \in 1..nStar |-> StarQuestion(text)]],
     technical |-> [context |-> note, mcq |-> text,
                    questions |-> [i \in 1..nCode |-> CodeQuestion(text)]]]

(***************************************************************************)
(* The table.                                                              *)
(***************************************************************************)
GetItem(c, d) == c[d]

(* Variant: a put whose expiry counts from the start of the day.           *)
PutAtMidnight(c, d, quiz, t) == [c EXCEPT ![d] = [quiz |-> quiz, ttl |-> d * DayLen + TTL]]

(* Variant: a put that keeps the quiz of an item already stored.           *)
PutKeep(c, d, quiz, t) ==
    IF c[d] = NoItem
    THEN [c EXCEPT ![d] = [quiz |-> quiz, ttl |-> t + TTL]]
    ELSE [c EXCEPT ![d].ttl = t + TTL]

PutItem(c, d, quiz, t) == [c EXCEPT ![d] = [quiz |-> quiz, ttl |-> t + TTL]]

(***************************************************************************)
(* Generation: the fall-through route of the handler.                      *)
(***************************************************************************)
(* `resumeRows` is the result of the resume similarity search and          *)
(* `finalResumeRows` the result of the fallback query, Null until made.    *)
(* History kept for the properties, read by no action: `old` is the table  *)
(* as the invocation found it, `prev` the successful generation that the   *)
(* invocation directly follows (Null when it follows none).                *)
Prev(l) ==
    IF l.status = 200 /\ l.did.route = "generate"
    THEN [date |-> l.did.today, force |-> l.did.force, calls |-> l.did.calls,
          body |-> l.body]
    ELSE Null

NewGenerate(force, t, c, l) ==
    [route |-> "generate", routeKey |-> "POST /generate",
     pc |-> IF force THEN "embed" ELSE "check",
     force |-> force, today |-> Today(t),
     lcRows |-> {}, noteRows |-> {}, lc |-> "", res |-> "", note |-> "",
     ok |-> {}, quiz |-> Null, calls |-> NoCalls, old |-> c, prev |-> Prev(l),
     starved |-> {}, named |-> {}, resumeRows |-> Null, finalResumeRows |-> Null]

StartGenerate(r, force) ==
    /\ NextSlot(r)
    /\ Begin(r, NewGenerate(force, now, cache, last))
    /\ UNCHANGED <<now, kb, cache, lim, ui>>

(* Leaves: the invocation goes on, or returns a response.                  *)
GoOn(r, q) == req' = [req EXCEPT ![r] = q] /\ last' = last

Return(r, resp) == req' = [req EXCEPT ![r] = Idle] /\ last' = resp

(* Variant: a lookup that never counts as a hit.                           *)
NeverHit(item) == FALSE

IsHit(item) == item # NoItem

(* Variant: a hit that answers with the whole table item.                  *)
ServedItem(item) == item

Served(item) == item.quiz

CheckCache(r) ==
    /\ req[r].route = "generate"
    /\ req[r].pc = "check"
    /\ LET q == [req[r] EXCEPT !.calls = Bump(@, "get", 1)]
           item == GetItem(cache, q.today)
       IN \/ Return(r, Error(r, q, "CacheUnavailable"))
          \/ IF IsHit(item)
             THEN Return(r, Ok(r, q, Served(item)))
             ELSE GoOn(r, [q EXCEPT !.pc = "embed"])
    /\ UNCHANGED <<now, kb, cache, issued, lim, ui>>

Embed(r) ==
    /\ req[r].route = "generate"
    /\ req[r].pc = "embed"
    /\ LET q == [req[r] EXCEPT !.calls = Bump(@, "embed", 2)]
       IN \/ Return(r, Error(r, q, "EmbeddingUnavailable"))
          \/ GoOn(r, [q EXCEPT !.pc = "search"])
    /\ UNCHANGED <<now, kb, cache, issued, lim, ui>>

Missing(lcRows, resRows, noteRows) ==
    (IF lcRows = {} THEN {"leetcode"} ELSE {})
        \cup (IF resRows = {} THEN {"resume"} ELSE {})
        \cup (IF noteRows = {} THEN {"note"} ELSE {})

(* The categories the thrown message names: "Insufficient data in Vector   *)
(* DB" names none.                                                         *)
Named(missing) == {}

Picked(q, lc, res, note) ==
    [q EXCEPT !.pc = "synth", !.lc = lc, !.res = res, !.note = note,
              !.lcRows = {}, !.noteRows = {}, !.calls = Bump(@, "llm", 5)]

(* Lines 637-655: pick one row per category, throw when one is missing,    *)
(* else start the five completion calls.                                   *)
Pick(r, q, lcRows, resRows, noteRows) ==
    IF Missing(lcRows, resRows, noteRows) # {}
    THEN Return(r, Error(r, [q EXCEPT !.starved = Missing(lcRows, resRows, noteRows),
                                      !.named = Named(Missing(lcRows, resRows, noteRows))],
                         "InsufficientContext"))
    ELSE \E lc \in lcRows, res \in resRows, note \in noteRows :
            GoOn(r, Picked(q, lc, res, note))

Search(r) ==
    /\ req[r].route = "generate"
    /\ req[r].pc = "search"
    /\ LET q == [req[r] EXCEPT !.calls = Bump(@, "search", 3)]
       IN \/ Return(r, Error(r, q, "StoreUnavailable"))
          \/ \E lcRows \in SearchResults(kb.leetcode),
                resRows \in SearchResults(kb.resume),
                noteRows \in SearchResults(kb.note) :
                IF resRows = {}
                THEN GoOn(r, [q EXCEPT !.pc = "fallback", !.resumeRows = [rows |-> resRows],
                                       !.lcRows = lcRows, !.noteRows = noteRows])
                ELSE Pick(r, [q EXCEPT !.resumeRows = [rows |-> resRows]],
                          lcRows, resRows, noteRows)
    /\ UNCHANGED <<now, kb, cache, issued, lim, ui>>

Fallback(r) ==
    /\ req[r].route = "generate"
    /\ req[r].pc = "fallback"
    /\ LET q == [req[r] EXCEPT !.calls = Bump(@, "search", 1)]
       IN \/ Return(r, Error(r, q, "StoreUnavailable"))
          \/ \E resRows \in AnyResults(kb.resume) :
                Pick(r, [q EXCEPT !.finalResumeRows = [rows |-> resRows]],
                     q.lcRows, resRows, q.noteRows)
    /\ UNCHANGED <<now, kb, cache, issued, lim, ui>>

(* Variant: a join that resolves once four branches have.                  *)
JoinedFour(ok) == Cardinality(ok) >= 4

Joined(ok) == ok = Branches

(* Lines 657-681: the quiz is built synchronously once Promise.all has     *)
(* resolved; mapping a `questions` value that is no array throws.          *)
Assemble(r, q, text, nStar, nCode) ==
    IF nStar = NotAList \/ nCode = NotAList
    THEN Return(r, Error(r, q, "TypeError"))
    ELSE GoOn(r, [q EXCEPT !.pc = "persist",
                    !.quiz = AssembleQuiz(q.today, q.lc, q.res, q.note, text, nStar, nCode)])

BranchOK(r, b) ==
    /\ req[r].route = "generate"
    /\ req[r].pc = "synth"
    /\ b \notin req[r].ok
    /\ LET q == [req[r] EXCEPT !.ok = @ \cup {b}]
       IN IF Joined(q.ok)
          THEN \E text \in Texts, nStar \in BatchLens, nCode \in BatchLens :
                  Assemble(r, q, text, nStar, nCode)
          ELSE GoOn(r, q)
    /\ UNCHANGED <<now, kb, cache, issued, lim, ui>>

BranchFail(r, b) ==
    /\ req[r].route = "generate"
    /\ req[r].pc = "synth"
    /\ b \notin req[r].ok
    /\ \E e \in {"CompletionUnavailable", "MalformedModelOutput"} :
          Return(r, Error(r, req[r], e))
    /\ UNCHANGED <<now, kb, cache, issued, lim, ui>>

(* Variant: a put that stores the item and then reports failure.          *)
PersistTorn(r) ==
    /\ req[r].route = "generate"
    /\ req[r].pc = "persist"
    /\ LET q == [req[r] EXCEPT !.calls = Bump(@, "put", 1)]
       IN /\ cache' = PutItem(cache, q.today, q.quiz, now)
          /\ \/ Return(r, Error(r, q, "CacheUnavailable"))
             \/ Return(r, Ok(r, q, q.quiz))
    /\ UNCHANGED <<now, kb, issued, lim, ui>>

Persist(r) ==
    /\ req[r].route = "generate"
    /\ req[r].pc = "persist"
    /\ LET q == [req[r] EXCEPT !.calls = Bump(@, "put", 1)]
       IN \/ /\ Return(r, Error(r, q, "CacheUnavailable"))
             /\ cache' = cache
          \/ /\ cache' = PutItem(cache, q.today, q.quiz, now)
             /\ Return(r, Ok(r, q, q.quiz))
    /\ UNCHANGED <<now, kb, issued, lim, ui>>

(***************************************************************************)
(* Validation: POST /validate-star and POST /validate-code.                *)
(***************************************************************************)
(* Variant: a segment that keeps the score alone.                          *)
SegmentBare(answer, v) == [score |-> v.score]

(* Variant: a segment stored without the rewrite.                          *)
StarSegmentPlain(answer, v) ==
    [answer |-> answer, score |-> v.score, feedback |-> v.feedback,
     better_version |-> NoText]

StarSegment(answer, v) ==
    [answer |-> answer, score |-> v.score, feedback |-> v.feedback,
     better_version |-> v.better]

CodeResult(answer, v) ==
    [answer |-> answer, score |-> v.score, feedback |-> v.feedback,
     better_solution |-> v.better]

Rejected == [rejected |-> TRUE]

HasQuestion(questions, idx) == idx \in 0..(Len(questions) - 1)

(* JavaScript's comparisons of a score with a number: a string that is no  *)
(* number converts to NaN, and every comparison with NaN is false.         *)
IsNumber(score) == score # ScoreText

AtLeast(score, n) == IsNumber(score) /\ score >= n

LessThan(score, n) == IsNumber(score) /\ score < n

Falsy(score) == score = 0

PrevStep(step) == CASE step = "T" -> "S" [] step = "A" -> "T" [] step = "R" -> "A"

(* Variant: an update that does nothing, and succeeds, when its target is  *)
(* missing.                                                                *)
StarUpdateLenient(item, idx, step, seg) ==
    IF item = NoItem THEN item
    ELSE IF "questions" \notin DOMAIN item.quiz.resume THEN item
    ELSE IF ~HasQuestion(item.quiz.resume.questions, idx) THEN item
    ELSE [item EXCEPT !.quiz.resume.questions[idx + 1].userProgress[step] = seg]

(* Variant: an update that refuses a step whose predecessor has not passed. *)
StarUpdateGated(item, idx, step, seg) ==
    IF item = NoItem THEN Rejected
    ELSE IF "questions" \notin DOMAIN item.quiz.resume THEN Rejected
    ELSE IF ~HasQuestion(item.quiz.resume.questions, idx) THEN Rejected
    ELSE IF /\ step # "S"
            /\ LET p == item.quiz.resume.questions[idx + 1].userProgress[PrevStep(step)]
               IN p = Null \/ ~AtLeast(p.score, PassScore)
         THEN Rejected
    ELSE [item EXCEPT !.quiz.resume.questions[idx + 1].userProgress[step] = seg]

(* Variant: an update that sets the step in every question of the batch.   *)
StarUpdateAll(item, idx, step, seg) ==
    IF item = NoItem THEN Rejected
    ELSE IF "questions" \notin DOMAIN item.quiz.resume THEN Rejected
    ELSE IF ~HasQuestion(item.quiz.resume.questions, idx) THEN Rejected
    ELSE [item EXCEPT !.quiz.resume.questions =
              [i \in DOMAIN @ |-> [@[i] EXCEPT !.userProgress[step] = seg]]]

(* UpdateItem with SET quiz.resume.questions[idx].userProgress.step = :val *)
(* DynamoDB rejects a SET whose document path has a missing parent (no     *)
(* item, no questions list, no such list element) and then changes         *)
(* nothing.                                                                *)
StarUpdate(item, idx, step, seg) ==
    IF item = NoItem THEN Rejected
    ELSE IF "questions" \notin DOMAIN item.quiz.resume THEN Rejected
    ELSE IF ~HasQuestion(item.quiz.resume.questions, idx) THEN Rejected
    ELSE [item EXCEPT !.quiz.resume.questions[idx + 1].userProgress[step] = seg]

(* Variant: an update that keeps the rewrite of a result already stored.   *)
CodeUpdateMerge(item, idx, seg) ==
    IF item = NoItem THEN Rejected
    ELSE IF "questions" \notin DOMAIN item.quiz.technical THEN Rejected
    ELSE IF ~HasQuestion(item.quiz.technical.questions, idx) THEN Rejected
    ELSE LET prior == item.quiz.technical.questions[idx + 1].userProgress
         IN [item EXCEPT !.quiz.technical.questions[idx + 1].userProgress =
                IF prior = Null THEN seg
                ELSE [seg EXCEPT !.better_solution = prior.better_solution]]

(* UpdateItem with SET quiz.technical.questions[idx].userProgress = :val   *)
CodeUpdate(item, idx, seg) ==
    IF item = NoItem THEN Rejected
    ELSE IF "questions" \notin DOMAIN item.quiz.technical THEN Rejected
    ELSE IF ~HasQuestion(item.quiz.technical.questions, idx) THEN Rejected
    ELSE [item EXCEPT !.quiz.technical.questions[idx + 1].userProgress = seg]

(* Variant: a guard that takes question index 0 for no index.              *)
SavesTruthy(date, idx) == date # NoDate /\ idx # NoIndex /\ idx # 0

(* body.date && body.questionIndex !== undefined                           *)
SavesProgress(date, idx) == date # NoDate /\ idx # NoIndex

NewValidate(route, date, idx, step, answer, c) ==
    [route |-> route, pc |-> "grade", date |-> date, idx |-> idx, step |-> step,
     answer |-> answer, validation |-> Null, calls |-> NoCalls, old |-> c]

StartValidateStar(r, date, idx, step, answer) ==
    /\ NextSlot(r)
    /\ Begin(r, NewValidate("validate-star", date, idx, step, answer, cache))
    /\ UNCHANGED <<now, kb, cache, lim, ui>>

StartValidateCode(r, date, idx, answer) ==
    /\ NextSlot(r)
    /\ Begin(r, NewValidate("validate-code", date, idx, "", answer, cache))
    /\ UNCHANGED <<now, kb, cache, lim, ui>>

(* await validateSTARStep(body) / await validateCode(body): one completion *)
(* call and cleanResponse on its text; then the `if` that guards the save. *)
Graded(r, q, v) ==
    LET q2 == [q EXCEPT !.validation = v]
    IN IF SavesProgress(q.date, q.idx)
       THEN GoOn(r, [q2 EXCEPT !.pc = "update"])
       ELSE Return(r, Ok(r, q2, v))

(* Variant: an update computed from the item as the invocation found it.   *)
UpdatedStale(q, item) ==
    IF q.route = "validate-star"
    THEN StarUpdate(q.old[q.date], q.idx, q.step, StarSegment(q.answer, q.validation))
    ELSE CodeUpdate(q.old[q.date], q.idx, CodeResult(q.answer, q.validation))

(* Variant: a grading whose failure saves a default result.                *)
GradeOrDefault(r) ==
    /\ req[r].route \in {"validate-star", "validate-code"}
    /\ req[r].pc = "grade"
    /\ LET q == [req[r] EXCEPT !.calls = Bump(@, "llm", 1)]
       IN \/ Graded(r, q, [score |-> 0, feedback |-> NoText, better |-> NoText])
          \/ \E v \in GradeReplies : Graded(r, q, v)
    /\ UNCHANGED <<now, kb, cache, issued, lim, ui>>

Grade(r) ==
    /\ req[r].route \in {"validate-star", "validate-code"}
    /\ req[r].pc = "grade"
    /\ LET q == [req[r] EXCEPT !.calls = Bump(@, "llm", 1)]
       IN \/ \E e \in {"CompletionUnavailable", "MalformedModelOutput"} :
                Return(r, Error(r, q, e))
          \/ \E v \in GradeReplies : Graded(r, q, v)
    /\ UNCHANGED <<now, kb, cache, issued, lim, ui>>

Updated(q, item) ==
    IF q.route = "validate-star"
    THEN StarUpdate(item, q.idx, q.step, StarSegment(q.answer, q.validation))
    ELSE CodeUpdate(item, q.idx, CodeResult(q.answer, q.validation))

Update(r) ==
    /\ req[r].route \in {"validate-star", "validate-code"}
    /\ req[r].pc = "update"
    /\ LET q == [req[r] EXCEPT !.calls = Bump(@, "upd", 1)]
           item == Updated(q, cache[q.date])
       IN \/ /\ Return(r, Error(r, q, "CacheUnavailable"))
             /\ cache' = cache
          \/ IF item = Rejected
             THEN /\ Return(r, Error(r, q, "ValidationException"))
                  /\ cache' = cache
             ELSE /\ Return(r, Ok(r, q, q.validation))
                  /\ cache' = [cache EXCEPT ![q.date] = item]
    /\ UNCHANGED <<now, kb, issued, lim, ui>>

(***************************************************************************)
(* History: GET /history.                                                  *)
(***************************************************************************)
Present(c) == {d \in Days : c[d] # NoItem}

Greatest(S) == CHOOSE m \in S : \A d \in S : d <= m

(* Variant: a query in ascending key order.                                *)
RECURSIVE OldestFirst(_, _, _)
OldestFirst(c, S, n) ==
    IF S = {} \/ n = 0 THEN << >>
    ELSE LET m == CHOOSE x \in S : \A d \in S : x <= d
         IN <<c[m].quiz>> \o OldestFirst(c, S \ {m}, n - 1)

(* (`old` of a history invocation is the table as its query found it.)     *)
(* Query with ScanIndexForward false and Limit n: the items of the         *)
(* partition in descending sort-key order, n at most; mapped to quizzes.   *)
RECURSIVE NewestFirst(_, _, _)
NewestFirst(c, S, n) ==
    IF S = {} \/ n = 0 THEN << >>
    ELSE <<c[Greatest(S)].quiz>> \o NewestFirst(c, S \ {Greatest(S)}, n - 1)

StartHistory(r) ==
    /\ NextSlot(r)
    /\ Begin(r, [route |-> "history", pc |-> "query", calls |-> NoCalls, old |-> cache])
    /\ UNCHANGED <<now, kb, cache, lim, ui>>

History(r) ==
    /\ req[r].route = "history"
    /\ req[r].pc = "query"
    /\ LET q == [req[r] EXCEPT !.calls = Bump(@, "get", 1), !.old = cache]
       IN \/ Return(r, Error(r, q, "CacheUnavailable"))
          \/ Return(r, Ok(r, q, NewestFirst(cache, Present(cache), HistoryLimit)))
    /\ UNCHANGED <<now, kb, cache, issued, lim, ui>>

Tick ==
    /\ now + TickLen <= MaxTime
    /\ now' = now + TickLen
    /\ UNCHANGED <<kb, cache, req, issued, last, lim, ui>>

Init ==
    /\ now = 0
    /\ kb \in Corpora
    /\ cache = [d \in Days |-> NoItem]
    /\ req = [r \in Slots |-> Idle]
    /\ issued = 0
    /\ last = NoResponse
    /\ lim = 1
    /\ ui = NoUI

Next ==
    \/ \E r \in Slots, force \in BOOLEAN : StartGenerate(r, force)
    \/ \E r \in Slots : CheckCache(r)
    \/ \E r \in Slots : Embed(r)
    \/ \E r \in Slots : Search(r)
    \/ \E r \in Slots : Fallback(r)
    \/ \E r \in Slots, b \in Branches : BranchOK(r, b)
    \/ \E r \in Slots, b \in Branches : BranchFail(r, b)
    \/ \E r \in Slots : Persist(r)
    \/ \E r \in Slots, date \in DateArgs, idx \in IndexArgs, step \in StepSet,
          answer \in Answers : StartValidateStar(r, date, idx, step, answer)
    \/ \E r \in Slots, date \in DateArgs, idx \in IndexArgs, answer \in Answers :
          StartValidateCode(r, date, idx, answer)
    \/ \E r \in Slots : Grade(r)
    \/ \E r \in Slots : Update(r)
    \/ \E r \in Slots : StartHistory(r)
    \/ \E r \in Slots : History(r)
    \/ Tick

Spec == Init /\ [][Next]_vars

(***************************************************************************)
(* Two invocations at a time: Lambda runs as many instances of the handler *)
(* as there are requests.  The table is empty or holds the day's freshly   *)
(* generated quiz, one invocation having run before.                       *)
(***************************************************************************)
FreshQuiz(d, text) == AssembleQuiz(d, "L1", "R1", "N1", text, MaxQuestions, MaxQuestions)

NoItems == [d \in Days |-> NoItem]

InitConc ==
    /\ now = 0
    /\ kb = FullCorpus
    /\ cache \in {NoItems} \cup {PutItem(NoItems, 0, FreshQuiz(0, text), 0) : text \in Texts}
    /\ req = [r \in Slots |-> Idle]
    /\ issued = MaxRequests - Cardinality(Slots)
    /\ last = NoResponse
    /\ lim = Cardinality(Slots)
    /\ ui = NoUI

(* The writing routes, run two at a time within one instant of the clock.  *)
NextConc ==
    \/ \E r \in Slots, force \in BOOLEAN : StartGenerate(r, force)
    \/ \E r \in Slots : CheckCache(r)
    \/ \E r \in Slots : Embed(r)
    \/ \E r \in Slots : Search(r)
    \/ \E r \in Slots : Fallback(r)
    \/ \E r \in Slots, b \in Branches : BranchOK(r, b)
    \/ \E r \in Slots, b \in Branches : BranchFail(r, b)
    \/ \E r \in Slots : Persist(r)
    \/ \E r \in Slots, date \in DateArgs, idx \in IndexArgs, step \in StepSet,
          answer \in Answers : StartValidateStar(r, date, idx, step, answer)
    \/ \E r \in Slots, date \in DateArgs, idx \in IndexArgs, answer \in Answers :
          StartValidateCode(r, date, idx, answer)
    \/ \E r \in Slots : Grade(r)
    \/ \E r \in Slots : Update(r)

SpecConc == InitConc /\ [][NextConc]_vars

(***************************************************************************)
(* The legacy route: POST /submit.  A quiz of the revision before the STAR *)
(* drill has an open_ended question in its resume and technical sections   *)
(* and no questions list.                                                  *)
(***************************************************************************)
LegacyQuiz(d, text) ==
    [date |-> d,
     leetcode |-> [problem |-> "L1", ai_question |-> text],
     resume |-> [context |-> "R1", mcq |-> text, open_ended |-> [question |-> text]],
     technical |-> [context |-> "N1", mcq |-> text, open_ended |-> [question |-> text]]]

Types == {"Resume Experience", "Technical Knowledge", "MCQ"}

(* type === 'Resume Experience' ? 'resume' : 'technical'                   *)
Section(type) == IF type = "Resume Experience" THEN "resume" ELSE "technical"

(* The parsed reply of generateFeedback: its score is the text "X/10".     *)
FeedbackReplies == {[feedback |-> text, score |-> ScoreText] : text \in Texts}

Answered(openEnded, ua, fb) ==
    [k \in DOMAIN openEnded \cup {"user_answer", "feedback"} |->
        IF k = "user_answer" THEN ua ELSE IF k = "feedback" THEN fb ELSE openEnded[k]]

(* Variant: an update that sets the answer in both sections.               *)
SubmitUpdateBoth(item, section, ua, fb) ==
    IF item = NoItem THEN Rejected
    ELSE IF "open_ended" \notin DOMAIN item.quiz[section] THEN Rejected
    ELSE [item EXCEPT !.quiz.resume.open_ended = Answered(@, ua, fb),
                      !.quiz.technical.open_ended = Answered(@, ua, fb)]

(* UpdateItem with SET quiz.<section>.open_ended.user_answer = :ua,        *)
(* quiz.<section>.open_ended.feedback = :fb                                *)
SubmitUpdate(item, section, ua, fb) ==
    IF item = NoItem THEN Rejected
    ELSE IF "open_ended" \notin DOMAIN item.quiz[section] THEN Rejected
    ELSE [item EXCEPT !.quiz[section].open_ended = Answered(@, ua, fb)]

StartSubmit(r, date, type, answer) ==
    /\ NextSlot(r)
    /\ Begin(r, [route |-> "submit", pc |-> "feedback", date |-> date, type |-> type,
                 answer |-> answer, feedback |-> Null, calls |-> NoCalls, old |-> cache])
    /\ UNCHANGED <<now, kb, cache, lim, ui>>

(* await generateFeedback(body), then `if (date)`.                         *)
Feedback(r) ==
    /\ req[r].route = "submit"
    /\ req[r].pc = "feedback"
    /\ LET q == [req[r] EXCEPT !.calls = Bump(@, "llm", 1)]
       IN \/ \E e \in {"CompletionUnavailable", "MalformedModelOutput"} :
                Return(r, Error(r, q, e))
          \/ \E fb \in FeedbackReplies :
                IF q.date # NoDate
                THEN GoOn(r, [q EXCEPT !.feedback = fb, !.pc = "save"])
                ELSE Return(r, Ok(r, [q EXCEPT !.feedback = fb], fb))
    /\ UNCHANGED <<now, kb, cache, issued, lim, ui>>

Save(r) ==
    /\ req[r].route = "submit"
    /\ req[r].pc = "save"
    /\ LET q == [req[r] EXCEPT !.calls = Bump(@, "upd", 1)]
           item == SubmitUpdate(cache[q.date], Section(q.type), q.answer, q.feedback)
       IN \/ /\ Return(r, Error(r, q, "CacheUnavailable"))
             /\ cache' = cache
          \/ IF item = Rejected
             THEN /\ Return(r, Error(r, q, "ValidationException"))
                  /\ cache' = cache
             ELSE /\ Return(r, Ok(r, q, q.feedback))
                  /\ cache' = [cache EXCEPT ![q.date] = item]
    /\ UNCHANGED <<now, kb, issued, lim, ui>>

(* All routes that write, one invocation at a time, on a table that holds  *)
(* no record, a record of the present revision or a record of the old one. *)
InitLegacy ==
    /\ now = 0
    /\ kb = FullCorpus
    /\ cache \in {NoItems} \cup {PutItem(NoItems, 0, quiz, 0) :
                                    quiz \in {FreshQuiz(0, 1), LegacyQuiz(0, 1)}}
    /\ req = [r \in Slots |-> Idle]
    /\ issued = MaxRequests - 2
    /\ last = NoResponse
    /\ lim = 1
    /\ ui = NoUI

NextLegacy ==
    \/ \E r \in Slots, date \in DateArgs, type \in Types, answer \in Answers :
          StartSubmit(r, date, type, answer)
    \/ \E r \in Slots : Feedback(r)
    \/ \E r \in Slots : Save(r)
    \/ \E r \in Slots, force \in BOOLEAN : StartGenerate(r, force)
    \/ \E r \in Slots : CheckCache(r)
    \/ \E r \in Slots : Embed(r)
    \/ \E r \in Slots : Search(r)
    \/ \E r \in Slots : Fallback(r)
    \/ \E r \in Slots, b \in Branches : BranchOK(r, b)
    \/ \E r \in Slots, b \in Branches : BranchFail(r, b)
    \/ \E r \in Slots : Persist(r)
    \/ \E r \in Slots, date \in DateArgs, idx \in IndexArgs, step \in StepSet,
          answer \in Answers : StartValidateStar(r, date, idx, step, answer)
    \/ \E r \in Slots, date \in DateArgs, idx \in IndexArgs, answer \in Answers :
          StartValidateCode(r, date, idx, answer)
    \/ \E r \in Slots : Grade(r)
    \/ \E r \in Slots : Update(r)
    \/ Tick

SpecLegacy == InitLegacy /\ [][NextLegacy]_vars

(***************************************************************************)
(* Dispatch.  The handler compares the route key of the event with the     *)
(* routes it knows, one `if` after the other; what follows the last `if`   *)
(* is the generation.                                                      *)
(***************************************************************************)
RouteKeys ==
    {"POST /generate", "GET /history", "POST /validate-star", "POST /validate-code",
     "POST /submit", "GET /quiz", "POST /unknown"}

Route(routeKey) ==
    IF routeKey = "POST /validate-star" THEN "validate-star"
    ELSE IF routeKey = "POST /validate-code" THEN "validate-code"
    ELSE IF routeKey = "POST /submit" THEN "submit"
    ELSE IF routeKey = "GET /history" THEN "history"
    ELSE "generate"

(* An invocation whose route key none of the `if`s matches.                *)
Invoke(r, routeKey, force) ==
    /\ Route(routeKey) = "generate"
    /\ NextSlot(r)
    /\ Begin(r, [NewGenerate(force, now, cache, last) EXCEPT !.routeKey = routeKey])
    /\ UNCHANGED <<now, kb, cache, lim, ui>>

InitRoute ==
    /\ now = 0
    /\ kb \in Corpora
    /\ cache = NoItems
    /\ req = [r \in Slots |-> Idle]
    /\ issued = MaxRequests - 1
    /\ last = NoResponse
    /\ lim = 1
    /\ ui = NoUI

NextRoute ==
    \/ \E r \in Slots, routeKey \in RouteKeys, force \in BOOLEAN : Invoke(r, routeKey, force)
    \/ \E r \in Slots : StartHistory(r)
    \/ \E r \in Slots : History(r)
    \/ \E r \in Slots : CheckCache(r)
    \/ \E r \in Slots : Embed(r)
    \/ \E r \in Slots : Search(r)
    \/ \E r \in Slots : Fallback(r)
    \/ \E r \in Slots, b \in Branches : BranchOK(r, b)
    \/ \E r \in Slots, b \in Branches : BranchFail(r, b)
    \/ \E r \in Slots : Persist(r)

SpecRoute == InitRoute /\ [][NextRoute]_vars

(***************************************************************************)
(* Retrieval from a knowledge base with several resume records.            *)
(***************************************************************************)
InitFetch ==
    /\ now = 0
    /\ kb \in Corpora \cup {BigCorpus}
    /\ cache = NoItems
    /\ req = [r \in Slots |-> Idle]
    /\ issued = MaxRequests - 1
    /\ last = NoResponse
    /\ lim = 1
    /\ ui = NoUI

NextFetch ==
    \/ \E r \in Slots, force \in BOOLEAN : StartGenerate(r, force)
    \/ \E r \in Slots : CheckCache(r)
    \/ \E r \in Slots : Embed(r)
    \/ \E r \in Slots : Search(r)
    \/ \E r \in Slots : Fallback(r)
    \/ \E r \in Slots, b \in Branches : BranchOK(r, b)
    \/ \E r \in Slots, b \in Branches : BranchFail(r, b)
    \/ \E r \in Slots : Persist(r)

SpecFetch == InitFetch /\ [][NextFetch]_vars

(***************************************************************************)
(* A week later.  The table holds the quizzes of some of the days up to    *)
(* MaxDay, each written at the start of its day; it is the middle of day   *)
(* MaxDay.  DynamoDB removes an item some time after its ttl has passed.   *)
(***************************************************************************)
Expired(item, t) == item # NoItem /\ item.ttl < t

Expire(d) ==
    /\ Expired(cache[d], now)
    /\ cache' = [cache EXCEPT ![d] = NoItem]
    /\ UNCHANGED <<now, kb, req, issued, last, lim, ui>>

Written(S) ==
    [d \in Days |-> IF d \in S THEN [quiz |-> FreshQuiz(d, 1), ttl |-> d * DayLen + TTL]
                    ELSE NoItem]

InitDays ==
    /\ now = MaxDay * DayLen + TickLen
    /\ kb = FullCorpus
    /\ cache \in {Written(S) : S \in SUBSET Days}
    /\ req = [r \in Slots |-> Idle]
    /\ issued = MaxRequests - 1
    /\ last = NoResponse
    /\ lim = 1
    /\ ui = NoUI

NextDays ==
    \/ \E r \in Slots : StartGenerate(r, FALSE)
    \/ \E r \in Slots : CheckCache(r)
    \/ \E r \in Slots : Embed(r)
    \/ \E r \in Slots : Search(r)
    \/ \E r \in Slots : Fallback(r)
    \/ \E r \in Slots, b \in Branches : BranchOK(r, b)
    \/ \E r \in Slots, b \in Branches : BranchFail(r, b)
    \/ \E r \in Slots : Persist(r)
    \/ \E r \in Slots : StartHistory(r)
    \/ \E r \in Slots : History(r)
    \/ \E d \in Days : Expire(d)

SpecDays == InitDays /\ [][NextDays]_vars

(***************************************************************************)
(* The STAR drill component (STARDrill), mounted on the questions and the  *)
(* date of a stored quiz.  localQuestions is its own copy of the batch.    *)
(***************************************************************************)
(* `alerted` records that the last submission ended in the catch block,    *)
(* with its alert; `coding` is the coding drill of the same page.  `lost`  *)
(* is history kept for the properties, read by no action: some submission  *)
(* ended in the catch block although the handler had answered it with 200. *)
NoDrill == [mounted |-> FALSE]

Mounted(date, questions) ==
    [mounted |-> TRUE, date |-> date, localQuestions |-> questions,
     activeQuestionIndex |-> 0, submitting |-> FALSE, sent |-> Null,
     alerted |-> FALSE, lost |-> FALSE, coding |-> NoDrill]

(* The coding drill component (TechnicalCodingDrill) on the coding         *)
(* questions of the same quiz.                                             *)
CodingDrill(questions) ==
    [mounted |-> TRUE, localQuestions |-> questions, activeQuestionIndex |-> 0,
     submitting |-> FALSE, sent |-> Null, alerted |-> FALSE]

(* The invocations a drill's fetch has started and the handler has not     *)
(* answered.                                                               *)
Pending(route) == {r \in Slots : req[r].route = route}

(* A drill whose fetch has been answered and whose continuation has not    *)
(* run yet.                                                                *)
Awaited ==
    \/ ui.submitting /\ Pending("validate-star") = {}
    \/ ui.coding.mounted /\ ui.coding.submitting /\ Pending("validate-code") = {}

(* await fetch(...): the request reaches the handler.  A response that a   *)
(* drill has yet to read stays where it is.                                *)
fetch(r, q) ==
    /\ req' = [req EXCEPT ![r] = q]
    /\ issued' = issued + 1
    /\ last' = IF Awaited THEN last ELSE NoResponse

(* The response to the drill's fetch: the latest of its route.             *)
RECURSIVE ResponseTo(_, _)
ResponseTo(l, route) ==
    IF l.status = 0 THEN l
    ELSE IF l.did.route = route THEN l
    ELSE ResponseTo(l.earlier, route)

isStepLocked(questions, qIndex, step) ==
    IF step = "S" THEN FALSE
    ELSE LET p == questions[qIndex + 1].userProgress[PrevStep(step)]
         IN p = Null \/ Falsy(p.score) \/ LessThan(p.score, PassScore)

isPassed(progress) == progress # Null /\ AtLeast(progress.score, PassScore)

(* The render of a step shows its input and its submit button when the     *)
(* step is not locked and has no passed progress; the button is disabled   *)
(* while a submission is pending.                                          *)
Offered(u, step) ==
    /\ ~isStepLocked(u.localQuestions, u.activeQuestionIndex, step)
    /\ ~isPassed(u.localQuestions[u.activeQuestionIndex + 1].userProgress[step])

setActiveQuestionIndex(i) ==
    /\ ui.mounted
    /\ i \in 0..(Len(ui.localQuestions) - 1)
    /\ i # ui.activeQuestionIndex
    /\ ui' = [ui EXCEPT !.activeQuestionIndex = i]
    /\ UNCHANGED <<now, kb, cache, req, issued, last, lim>>

(* validateStep up to its fetch: the click on an offered step's button.    *)
validateStep(r, step, answer) ==
    /\ ui.mounted
    /\ ~ui.submitting
    /\ Offered(ui, step)
    /\ NextSlot(r)
    /\ fetch(r, NewValidate("validate-star", ui.date, ui.activeQuestionIndex,
                            step, answer, cache))
    /\ ui' = [ui EXCEPT !.submitting = TRUE, !.alerted = FALSE,
                        !.sent = [idx |-> ui.activeQuestionIndex, step |-> step,
                                  answer |-> answer]]
    /\ UNCHANGED <<now, kb, cache, lim>>

(* Variant: a continuation without `finally`: the catch block leaves the   *)
(* flag set.                                                               *)
ResolveWithoutFinally ==
    /\ ui.mounted
    /\ ui.submitting
    /\ Pending("validate-star") = {}
    /\ LET response == ResponseTo(last, "validate-star")
       IN \/ /\ response.status = 200
             /\ ui' = [ui EXCEPT !.submitting = FALSE, !.sent = Null,
                          !.localQuestions[ui.sent.idx + 1].userProgress[ui.sent.step] =
                              [answer |-> ui.sent.answer, score |-> response.body.score,
                               feedback |-> response.body.feedback,
                               better_version |-> response.body.better]]
          \/ ui' = [ui EXCEPT !.alerted = TRUE,
                              !.lost = @ \/ response.status = 200]
    /\ UNCHANGED <<now, kb, cache, req, issued, last, lim>>

(* validateStep after its fetch: an OK response whose body is read updates *)
(* the local copy; a response that is not OK, and a fetch or a body that   *)
(* rejects, reach the catch block, which only alerts; `finally` clears the *)
(* flag.                                                                   *)
Resolve ==
    /\ ui.mounted
    /\ ui.submitting
    /\ Pending("validate-star") = {}
    /\ LET response == ResponseTo(last, "validate-star")
           done == [ui EXCEPT !.submitting = FALSE, !.sent = Null]
       IN \/ /\ response.status = 200
             /\ ui' = [done EXCEPT
                          !.localQuestions[ui.sent.idx + 1].userProgress[ui.sent.step] =
                              [answer |-> ui.sent.answer, score |-> response.body.score,
                               feedback |-> response.body.feedback,
                               better_version |-> response.body.better]]
          \/ ui' = [done EXCEPT !.alerted = TRUE,
                                !.lost = @ \/ response.status = 200]
    /\ UNCHANGED <<now, kb, cache, req, issued, last, lim>>

(***************************************************************************)
(* The coding drill: one submit button for the active question, which is   *)
(* disabled while a submission is pending.                                 *)
(***************************************************************************)
setActiveCodeQuestionIndex(i) ==
    /\ ui.mounted
    /\ ui.coding.mounted
    /\ i \in 0..(Len(ui.coding.localQuestions) - 1)
    /\ i # ui.coding.activeQuestionIndex
    /\ ui' = [ui EXCEPT !.coding.activeQuestionIndex = i]
    /\ UNCHANGED <<now, kb, cache, req, issued, last, lim>>

(* validateCode up to its fetch.                                           *)
validateCode(r, answer) ==
    /\ ui.mounted
    /\ ui.coding.mounted
    /\ ~ui.coding.submitting
    /\ NextSlot(r)
    /\ fetch(r, NewValidate("validate-code", ui.date, ui.coding.activeQuestionIndex,
                            "", answer, cache))
    /\ ui' = [ui EXCEPT !.coding.submitting = TRUE, !.coding.alerted = FALSE,
                        !.coding.sent = [idx |-> ui.coding.activeQuestionIndex,
                                         answer |-> answer]]
    /\ UNCHANGED <<now, kb, cache, lim>>

(* validateCode after its fetch.                                           *)
ResolveCode ==
    /\ ui.mounted
    /\ ui.coding.mounted
    /\ ui.coding.submitting
    /\ Pending("validate-code") = {}
    /\ LET response == ResponseTo(last, "validate-code")
           done == [ui EXCEPT !.coding.submitting = FALSE, !.coding.sent = Null]
       IN \/ /\ response.status = 200
             /\ ui' = [done EXCEPT
                          !.coding.localQuestions[ui.coding.sent.idx + 1].userProgress =
                              [answer |-> ui.coding.sent.answer,
                               score |-> response.body.score,
                               feedback |-> response.body.feedback,
                               better_solution |-> response.body.better]]
          \/ ui' = [done EXCEPT !.coding.alerted = TRUE]
    /\ UNCHANGED <<now, kb, cache, req, issued, last, lim>>

(* The drill on the day's freshly generated quiz: the state of the handler *)
(* after one generation, with the component mounted on what it returned.   *)
InitUI ==
    /\ now = 0
    /\ kb = FullCorpus
    /\ \E text \in Texts :
          LET quiz == AssembleQuiz(0, "L1", "R1", "N1", text, MaxQuestions, MaxQuestions)
          IN /\ cache = PutItem([d \in Days |-> NoItem], 0, quiz, 0)
             /\ ui = Mounted(0, quiz.resume.questions)
    /\ req = [r \in Slots |-> Idle]
    /\ issued = 0
    /\ last = NoResponse
    /\ lim = 1

NextUI ==
    \/ \E i \in 0..(MaxQuestions - 1) : setActiveQuestionIndex(i)
    \/ \E r \in Slots, step \in StepSet, answer \in Answers : validateStep(r, step, answer)
    \/ \E r \in Slots : Grade(r)
    \/ \E r \in Slots : Update(r)
    \/ Resolve

SpecUI == InitUI /\ [][NextUI]_vars

(* The page with both drills on the day's quiz.  The two components are    *)
(* independent: each may have a request with the handler.  Every request   *)
(* is answered and every answered fetch runs its continuation: the handler *)
(* runs under the platform's timeout and the browser's event loop resumes  *)
(* an async function whose promise has settled.                            *)
InitDrills ==
    /\ now = 0
    /\ kb = FullCorpus
    /\ \E text \in Texts :
          LET quiz == AssembleQuiz(0, "L1", "R1", "N1", text, MaxQuestions, MaxQuestions)
          IN /\ cache = PutItem([d \in Days |-> NoItem], 0, quiz, 0)
             /\ ui = [Mounted(0, quiz.resume.questions) EXCEPT
                          !.coding = CodingDrill(quiz.technical.questions)]
    /\ req = [r \in Slots |-> Idle]
    /\ issued = MaxRequests - 2
    /\ last = NoResponse
    /\ lim = Cardinality(Slots)

NextDrills ==
    \/ \E i \in 0..(MaxQuestions - 1) : setActiveQuestionIndex(i)
    \/ \E r \in Slots, step \in StepSet, answer \in Answers : validateStep(r, step, answer)
    \/ Resolve
    \/ \E i \in 0..(MaxQuestions - 1) : setActiveCodeQuestionIndex(i)
    \/ \E r \in Slots, answer \in Answers : validateCode(r, answer)
    \/ ResolveCode
    \/ \E r \in Slots : Grade(r)
    \/ \E r \in Slots : Update(r)

SpecDrills ==
    /\ InitDrills
    /\ [][NextDrills]_vars
    /\ WF_vars(\E r \in Slots : Grade(r))
    /\ WF_vars(\E r \in Slots : Update(r))
    /\ WF_vars(Resolve)
    /\ WF_vars(ResolveCode)

(***************************************************************************)
(* The dictation button (DictationButton, the definition with the          *)
(* isStarting ref).  A text is a sequence of characters: a letter, a       *)
(* space, a newline, a full stop; the recognizer's transcript also holds   *)
(* the spoken commands `period` and `new line`, each one token.            *)
(***************************************************************************)
Letter == "a"
Space == "space"
Newline == "newline"
Stop == "."
Period == "period"
NewLineCmd == "new line"

Whitespace == {Space, Newline}

(* What the user can have in the textarea, and what the recognizer hands   *)
(* over as its transcript so far.                                          *)
TypedTexts == UNION {[1..n -> {Letter, Space, Newline}] : n \in 0..MaxTyped}

Transcripts ==
    {<<>>, <<Letter>>, <<Letter, Space, Period>>,
     <<Letter, Space, Period, Space, NewLineCmd, Space, Letter>>}

RECURSIVE SkipSpace(_)
SkipSpace(text) ==
    IF text # <<>> /\ Head(text) \in Whitespace THEN SkipSpace(Tail(text)) ELSE text

Commands == {Period, NewLineCmd}

Spoken(command) == IF command = Period THEN <<Stop, Space>> ELSE <<Newline>>

(* .replace(/\s*period\s*/gi, ". ") ... .replace(/\s*new line\s*/gi, "\n") *)
RECURSIVE cleanTranscript(_)
cleanTranscript(transcript) ==
    IF transcript = <<>> THEN <<>>
    ELSE LET rest == SkipSpace(transcript)
         IN IF rest # <<>> /\ Head(rest) \in Commands
            THEN Spoken(Head(rest)) \o cleanTranscript(SkipSpace(Tail(rest)))
            ELSE <<Head(transcript)>> \o cleanTranscript(Tail(transcript))

(* .replace(/\s\s+/g, ' ')                                                 *)
RECURSIVE Collapse(_)
Collapse(text) ==
    IF text = <<>> THEN <<>>
    ELSE IF Len(text) >= 2 /\ text[1] \in Whitespace /\ text[2] \in Whitespace
         THEN <<Space>> \o Collapse(SkipSpace(text))
         ELSE <<Head(text)>> \o Collapse(Tail(text))

RECURSIVE Reverse(_)
Reverse(text) == IF text = <<>> THEN <<>> ELSE Reverse(Tail(text)) \o <<Head(text)>>

(* .trim()                                                                 *)
Trim(text) == Reverse(SkipSpace(Reverse(SkipSpace(text))))

(* Variant: a join that leaves the base text as it is.                     *)
JoinVerbatim(base, transcript) ==
    IF Trim(Collapse(cleanTranscript(transcript))) = <<>> THEN base
    ELSE base \o <<Space>> \o Trim(Collapse(cleanTranscript(transcript)))

(* (baseTextRef.current + " " + cleanTranscript).replace(...).trim()       *)
Join(base, transcript) ==
    Trim(Collapse(base \o <<Space>> \o cleanTranscript(transcript)))

(* The component's state, the hook's `listening` and `transcript`, and the *)
(* recognizer's pending start.  History kept for the properties, read by   *)
(* no action: `listened` is whether a render since the last toggle-on has  *)
(* seen listening true, `dictated` whether textValue was last written by   *)
(* the sync effect.                                                        *)
NoDictation ==
    [mounted |-> FALSE, textValue |-> <<>>, isActive |-> FALSE,
     baseTextRef |-> <<>>, isStarting |-> FALSE, listening |-> FALSE,
     transcript |-> <<>>, pending |-> FALSE, listened |-> FALSE,
     dictated |-> FALSE]

(* useEffect: sync internal state with transcript when active.             *)
SyncTranscript(d) ==
    IF d.isActive /\ d.listening
    THEN [d EXCEPT !.textValue = Join(d.baseTextRef, d.transcript),
                   !.dictated = TRUE]
    ELSE d

(* Variant: a cleanup without the isStarting guard.                        *)
CleanupUnguarded(d) ==
    IF ~d.listening /\ d.isActive THEN [d EXCEPT !.isActive = FALSE] ELSE d

(* useEffect: cleanup when listening stops globally.                       *)
Cleanup(d) ==
    LET e == IF d.isStarting /\ d.listening THEN [d EXCEPT !.isStarting = FALSE] ELSE d
    IN IF ~e.listening /\ e.isActive /\ ~e.isStarting
       THEN [e EXCEPT !.isActive = FALSE]
       ELSE e

(* A render and the effects it runs, in the order of their declaration;    *)
(* the render that follows a reset of isActive runs neither body.          *)
Render(d) ==
    LET e == Cleanup(SyncTranscript(d))
    IN [e EXCEPT !.listened = @ \/ (e.isActive /\ d.listening)]

Rendered(d) == ui' = Render(d) /\ UNCHANGED <<now, kb, cache, req, issued, last, lim>>

(* The click on the microphone button.  stopListening asks the recognizer  *)
(* to stop: the hook's flag falls with the click or with a later event.    *)
(* Dictation starts on a text of bounded length.                           *)
toggleListening ==
    IF ui.isActive
    THEN \E flag \in {ui.listening, FALSE} :
            Rendered([ui EXCEPT !.listening = flag, !.pending = FALSE,
                                !.isActive = FALSE, !.isStarting = FALSE])
    ELSE /\ Len(ui.textValue) <= MaxTyped
         /\ Rendered([ui EXCEPT !.baseTextRef = ui.textValue, !.transcript = <<>>,
                                !.isActive = TRUE, !.isStarting = TRUE,
                                !.pending = TRUE, !.listened = FALSE])

(* onChange of the textarea.  The sync effect runs again when the parent   *)
(* hands over a new onTranscriptChange with its render.                    *)
onChange(text, stable) ==
    LET d == [ui EXCEPT !.textValue = text, !.dictated = FALSE]
    IN IF stable
       THEN ui' = d /\ UNCHANGED <<now, kb, cache, req, issued, last, lim>>
       ELSE Rendered(d)

(* The recognizer: a pending start takes effect; the recognizer ends, by   *)
(* a stop, an error or of its own; the transcript grows.                   *)
ListeningStarts ==
    /\ ui.pending
    /\ ~ui.listening
    /\ Rendered([ui EXCEPT !.listening = TRUE, !.pending = FALSE])

ListeningEnds ==
    /\ ui.listening
    /\ Rendered([ui EXCEPT !.listening = FALSE])

Extends(t, u) == Len(u) > Len(t) /\ SubSeq(u, 1, Len(t)) = t

Heard(transcript) ==
    /\ ui.listening
    /\ Extends(ui.transcript, transcript)
    /\ Rendered([ui EXCEPT !.transcript = transcript])

InitDictation ==
    /\ now = 0
    /\ kb = FullCorpus
    /\ cache = NoItems
    /\ req = [r \in Slots |-> Idle]
    /\ issued = 0
    /\ last = NoResponse
    /\ lim = 1
    /\ ui = NoDictation

NextDictation ==
    \/ toggleListening
    \/ \E text \in TypedTexts, stable \in BOOLEAN : onChange(text, stable)
    \/ ListeningStarts
    \/ ListeningEnds
    \/ \E transcript \in Transcripts : Heard(transcript)

SpecDictation == InitDictation /\ [][NextDictation]_vars

(***************************************************************************)
(* cleanResponse: the reply of a completion, as a sequence of tokens.  A   *)
(* token is a fence marker (three backticks, bare or labelled json), a     *)
(* brace, a member of an object, a scalar or a word of commentary.         *)
(* Multiline is a member whose string value holds a literal newline, Flat  *)
(* the same member with a space in its place.  Snippet is a member whose   *)
(* string value holds a fenced piece of code, as the prompt of             *)
(* validateCode shows for better_solution; Torn is what is left of such a  *)
(* member when it is cut at its first fence marker.                        *)
(***************************************************************************)
Fence == "fence"
JsonFence == "fence json"
Open == "open"
Close == "close"
Pair == "pair"
Multiline == "multiline"
Flat == "flat"
Snippet == "snippet"
Torn == "torn"
Scalar == "scalar"
Word == "word"
Fences == {Fence, JsonFence}
Markers == Fences \cup {Snippet}
Alphabet == {Fence, JsonFence, Open, Close, Pair, Multiline, Snippet, Scalar, Word}
NotFound == 0

RECURSIVE TextsOfLen(_)
TextsOfLen(n) ==
    IF n = 0 THEN {<<>>}
    ELSE {Append(t, a) : t \in TextsOfLen(n - 1), a \in Alphabet}

RawTexts == UNION {TextsOfLen(n) : n \in 0..MaxLen}

Least(S) == CHOOSE x \in S : \A y \in S : x <= y

(* text.match(/<opener>\s*([\s\S]*?)\s*```/): the leftmost opener that a   *)
(* later fence marker closes, and the tokens up to the first such marker.  *)
(* JsonFence begins with the three backticks, so it closes a block too.    *)
(* The markers inside a Snippet count like any other: its first marker     *)
(* closes a block opened before it, cutting the member, and opens a block  *)
(* that its second marker closes, around the code.                         *)
Match(text, openers) ==
    LET starts == {i \in 1..Len(text) :
                      /\ text[i] \in openers
                      /\ \/ text[i] = Snippet
                         \/ \E k \in (i + 1)..Len(text) : text[k] \in Markers}
    IN IF starts = {} THEN Null
       ELSE LET i == Least(starts)
                k == Least({k \in (i + 1)..Len(text) : text[k] \in Markers})
            IN IF text[i] = Snippet THEN [interior |-> <<Word>>]
               ELSE IF text[k] = Snippet
               THEN [interior |-> Append(SubSeq(text, i + 1, k - 1), Torn)]
               ELSE [interior |-> SubSeq(text, i + 1, k - 1)]

Unfenced(text) ==
    LET jsonMatch == Match(text, {JsonFence})
        codeMatch == Match(text, Markers)
    IN IF jsonMatch # Null THEN jsonMatch.interior
       ELSE IF codeMatch # Null THEN codeMatch.interior
       ELSE text

indexOf(text, tok) ==
    LET at == {i \in 1..Len(text) : text[i] = tok}
    IN IF at = {} THEN NotFound ELSE Least(at)

lastIndexOf(text, tok) ==
    LET at == {i \in 1..Len(text) : text[i] = tok}
    IN IF at = {} THEN NotFound ELSE Greatest(at)

(* String.prototype.substring swaps its arguments when the first is the    *)
(* greater; positions here count from 1, the end is exclusive.             *)
substring(text, from, to) ==
    IF from <= to THEN SubSeq(text, from, to - 1) ELSE SubSeq(text, to, from - 1)

(* Variant: the text up to the first closing brace.                        *)
BetweenFirst(text) ==
    LET firstBrace == indexOf(text, Open)
        lastBrace == indexOf(text, Close)
    IN IF firstBrace # NotFound /\ lastBrace # NotFound
       THEN substring(text, firstBrace, lastBrace + 1)
       ELSE text

BetweenBraces(text) ==
    LET firstBrace == indexOf(text, Open)
        lastBrace == lastIndexOf(text, Close)
    IN IF firstBrace # NotFound /\ lastBrace # NotFound
       THEN substring(text, firstBrace, lastBrace + 1)
       ELSE text

(* JSON.parse succeeds on a scalar and on an object, whose members are     *)
(* pairs and objects.                                                      *)
RECURSIVE IsObject(_), Members(_)
IsObject(text) ==
    /\ Len(text) >= 2
    /\ text[1] = Open
    /\ text[Len(text)] = Close
    /\ Members(SubSeq(text, 2, Len(text) - 1))

Members(text) ==
    \/ text = <<>>
    \/ /\ text # <<>>
       /\ text[1] \in {Pair, Flat, Snippet}
       /\ Members(Tail(text))
    \/ /\ text # <<>>
       /\ text[1] = Open
       /\ \E k \in 2..Len(text) :
             IsObject(SubSeq(text, 1, k)) /\ Members(SubSeq(text, k + 1, Len(text)))

Parses(text) == text = <<Scalar>> \/ IsObject(text)

(* cleanText.replace(/[\n\r\t]/g, " ")                                     *)
Spaced(text) == [i \in 1..Len(text) |-> IF text[i] = Multiline THEN Flat ELSE text[i]]

Parsed(value) == [ok |-> TRUE, value |-> value]

Thrown == [ok |-> FALSE]

cleanResponse(text) ==
    LET cleanText == BetweenBraces(Unfenced(text))
        sanitized == Spaced(cleanText)
    IN IF Parses(cleanText) THEN Parsed(cleanText)
       ELSE IF Parses(sanitized) THEN Parsed(sanitized)
       ELSE Thrown

(* An invocation that has received the reply `text` of a completion and    *)
(* hands it to cleanResponse; a throw ends in the handler's catch.         *)
Reply(text) == [route |-> "completion", pc |-> "clean", text |-> text, calls |-> NoCalls]

Clean(r) ==
    /\ req[r].pc = "clean"
    /\ LET q == [req[r] EXCEPT !.calls = Bump(@, "llm", 1)]
           result == cleanResponse(q.text)
       IN IF result.ok
          THEN Return(r, Ok(r, q, result.value))
          ELSE Return(r, Error(r, q, "SyntaxError"))
    /\ UNCHANGED <<now, kb, cache, issued, lim, ui>>

InitClean ==
    /\ now = 0
    /\ kb = FullCorpus
    /\ cache = NoItems
    /\ \E text \in RawTexts : req = [r \in Slots |-> IF r = 1 THEN Reply(text) ELSE Idle]
    /\ issued = 1
    /\ last = NoResponse
    /\ lim = 1
    /\ ui = NoUI

NextClean == \E r \in Slots : Clean(r)

SpecClean == InitClean /\ [][NextClean]_vars

(***************************************************************************)
(* Properties of the handler.                                              *)
(***************************************************************************)
Returned(route) == last.status # 0 /\ last.did.route = route

StarProgress(quiz) ==
    {quiz.resume.questions[i].userProgress[s] :
        i \in DOMAIN quiz.resume.questions, s \in StepSet}

CodeProgress(quiz) ==
    {quiz.technical.questions[i].userProgress : i \in DOMAIN quiz.technical.questions}

HasProgress(quiz) == (StarProgress(quiz) \cup CodeProgress(quiz)) \ {Null} # {}

HadRecord(q, d) == d \in Days /\ q.old[d] # NoItem

HadProgress(q, d) == HadRecord(q, d) /\ HasProgress(q.old[d].quiz)

(* The second of two successive generate(d, false), the first of which     *)
(* found no record and persisted one, has returned 200.                    *)
SecondOfTwo ==
    /\ Returned("generate")
    /\ last.status = 200
    /\ ~last.did.force
    /\ last.did.prev # Null
    /\ last.did.prev.date = last.did.today
    /\ ~last.did.prev.force
    /\ last.did.prev.calls.put = 1

(* C1: when generate(d, false) is called twice in succession for a day     *)
(* without a record and both calls succeed, the second returns the quiz    *)
(* the first returned and persisted, and the table after the second call   *)
(* is the table after the first.                                           *)
C1_Idempotent ==
    SecondOfTwo =>
        /\ last.body = last.did.prev.body
        /\ cache = last.did.old
        /\ cache[last.did.today].quiz = last.did.prev.body

C1_Witness == SecondOfTwo /\ now > 0 /\ last.body = last.did.prev.body

(* C2: a generate(d, false) that finds a record for d ends at the lookup:  *)
(* it answers with the stored quiz (or with the lookup's own failure),     *)
(* having made no embedding, search, completion or put call, and the       *)
(* table, expiry included, is as it found it.                              *)
C2_HitFrame ==
    /\ \A r \in Slots :
          (req[r].route = "generate" /\ ~req[r].force /\ HadRecord(req[r], req[r].today))
              => req[r].pc = "check" /\ req[r].calls = NoCalls
    /\ (Returned("generate") /\ ~last.did.force /\ HadRecord(last.did, last.did.today))
          => /\ last.did.calls = Bump(NoCalls, "get", 1)
             /\ cache = last.did.old
             /\ \/ last.status = 200 /\ last.body = last.did.old[last.did.today].quiz
                \/ last.status = 500 /\ last.body = "CacheUnavailable"

C2_Witness ==
    /\ Returned("generate")
    /\ last.status = 200
    /\ ~last.did.force
    /\ HadProgress(last.did, last.did.today)
    /\ HasProgress(last.body)
    /\ cache[last.did.today].ttl < now + TTL

(* C3: a generate(d, true) never reads the table, and when it succeeds the *)
(* item stored for d is exactly the quiz it assembled, with a new expiry:  *)
(* nothing of the item stored before remains and all progress is null.     *)
C3_ForceReplaces ==
    /\ \A r \in Slots :
          (req[r].route = "generate" /\ req[r].force) => req[r].calls.get = 0
    /\ (Returned("generate") /\ last.did.force) => last.did.calls.get = 0
    /\ (Returned("generate") /\ last.did.force /\ last.status = 200)
          => /\ DOMAIN cache[last.did.today] = {"quiz", "ttl"}
             /\ cache[last.did.today].quiz = last.did.quiz
             /\ last.body = last.did.quiz
             /\ ~HasProgress(cache[last.did.today].quiz)
             /\ cache[last.did.today].ttl <= now + TTL
             /\ cache[last.did.today].ttl >= last.did.today * DayLen + TTL

C3_Witness ==
    /\ Returned("generate")
    /\ last.did.force
    /\ last.status = 200
    /\ HadProgress(last.did, last.did.today)
    /\ last.did.old[last.did.today].quiz.leetcode.ai_question # last.body.leetcode.ai_question

SynthesisFailures == {"CompletionUnavailable", "MalformedModelOutput", "TypeError"}

(* C4: the put of a generation is issued only when all five completion     *)
(* branches have succeeded; a generation that ends on a failed branch,     *)
(* whichever branches had succeeded before it, has issued no put and has   *)
(* left the table alone.                                                   *)
C4_PersistAfterAll ==
    /\ \A r \in Slots : req[r].pc = "persist" => req[r].ok = Branches
    /\ Returned("generate") =>
          /\ last.did.calls.put > 0 => last.did.ok = Branches
          /\ last.did.ok # Branches => cache = last.did.old
          /\ (last.status = 500 /\ last.body \in SynthesisFailures)
                => last.did.calls.put = 0 /\ cache = last.did.old

C4_Witness ==
    /\ Returned("generate")
    /\ last.status = 500
    /\ last.body = "CompletionUnavailable"
    /\ last.did.ok = Branches \ {"q1"}

(* C5: a generation that ends in failure, at whatever stage, leaves the    *)
(* table as the invocation found it.                                       *)
C5_FailureKeepsCache ==
    (Returned("generate") /\ last.status = 500) => cache = last.did.old

C5_Witness ==
    /\ Returned("generate")
    /\ last.status = 500
    /\ last.did.force
    /\ last.body = "CacheUnavailable"
    /\ last.did.calls.put = 1
    /\ HadProgress(last.did, last.did.today)

Validating(q) == q.route \in {"validate-star", "validate-code"}

(* C6: a validation issues its update only with the parsed reply of its    *)
(* one grading call; when the grading call or the parse fails, no update   *)
(* is issued and the table is as the invocation found it.                  *)
C6_UpdateAfterGrade ==
    /\ \A r \in Slots :
          (Validating(req[r]) /\ req[r].pc = "update")
              => req[r].validation \in GradeReplies /\ req[r].calls.llm = 1
    /\ (last.status # 0 /\ Validating(last.did)) =>
          /\ last.did.calls.upd > 0 => last.did.validation \in GradeReplies
          /\ last.did.validation = Null
                => /\ last.status = 500
                   /\ last.did.calls.upd = 0
                   /\ cache = last.did.old

C6_Witness ==
    /\ last.status = 500
    /\ Validating(last.did)
    /\ last.body = "MalformedModelOutput"
    /\ SavesProgress(last.did.date, last.did.idx)
    /\ HadRecord(last.did, last.did.date)
    /\ HasQuestion(last.did.old[last.did.date].quiz.resume.questions, last.did.idx)

StarSteps(quiz) == {<<i, s>> : i \in DOMAIN quiz.resume.questions, s \in StepSet \ {"S"}}

Stored(c) == {c[d].quiz : d \in {e \in Days : c[e] # NoItem}}

GradedOnTarget ==
    /\ Returned("validate-star")
    /\ last.did.validation # Null
    /\ SavesProgress(last.did.date, last.did.idx)
    /\ HadRecord(last.did, last.did.date)
    /\ HasQuestion(last.did.old[last.did.date].quiz.resume.questions, last.did.idx)

Predecessor(q) == q.old[q.date].quiz.resume.questions[q.idx + 1].userProgress[PrevStep(q.step)]

(* C8: a validate-star request for any step of an existing question is     *)
(* graded and, unless the table call itself fails, its segment is written  *)
(* to that step, whatever the predecessor step holds.                      *)
C8_OutOfOrderWritten ==
    GradedOnTarget =>
        \/ /\ last.status = 200
           /\ last.body = last.did.validation
           /\ cache[last.did.date].quiz.resume.questions[last.did.idx + 1]
                  .userProgress[last.did.step]
                = StarSegment(last.did.answer, last.did.validation)
        \/ last.status = 500 /\ last.body = "CacheUnavailable"

C8_Witness ==
    /\ GradedOnTarget
    /\ last.status = 200
    /\ last.did.step = "A"
    /\ Predecessor(last.did) # Null
    /\ LessThan(Predecessor(last.did).score, PassScore)

(* C10: a validate-star that succeeded in saving changed the progress of   *)
(* its step in its question and nothing else in the table.                 *)
C10_OnlyThatStep ==
    (Returned("validate-star") /\ last.status = 200 /\ last.did.calls.upd = 1) =>
        LET q == last.did
        IN cache = [q.old EXCEPT ![q.date].quiz.resume.questions[q.idx + 1].userProgress[q.step] =
                        cache[q.date].quiz.resume.questions[q.idx + 1].userProgress[q.step]]

C10_Witness ==
    /\ Returned("validate-star")
    /\ last.status = 200
    /\ last.did.calls.upd = 1
    /\ Len(cache[last.did.date].quiz.resume.questions) > 1
    /\ HasProgress(last.did.old[last.did.date].quiz)
    /\ cache # last.did.old

(***************************************************************************)
(* Properties of the STAR drill.                                           *)
(***************************************************************************)
LocalPredecessor(q) ==
    ui.localQuestions[q.idx + 1].userProgress[PrevStep(q.step)]

(* C9: a validate request the drill has issued for step T, A or R of a     *)
(* question finds, in the drill's local progress of that question, the     *)
(* predecessor step with a score of at least 8.                            *)
C9_IssuedOnlyWhenPassed ==
    \A r \in Slots :
        (ui.mounted /\ req[r].route = "validate-star" /\ req[r].step # "S")
            => /\ LocalPredecessor(req[r]) # Null
               /\ AtLeast(LocalPredecessor(req[r]).score, PassScore)

(***************************************************************************)
(* Properties of concurrent invocations.                                   *)
(***************************************************************************)
Target(q) == <<q.route, q.date, q.idx, q.step>>

ResultOf(q) ==
    IF q.route = "validate-star"
    THEN [answer |-> q.answer, score |-> q.validation.score,
          feedback |-> q.validation.feedback, better_version |-> q.validation.better]
    ELSE [answer |-> q.answer, score |-> q.validation.score,
          feedback |-> q.validation.feedback, better_solution |-> q.validation.better]

StoredAt(c, q) ==
    IF q.route = "validate-star"
    THEN c[q.date].quiz.resume.questions[q.idx + 1].userProgress[q.step]
    ELSE c[q.date].quiz.technical.questions[q.idx + 1].userProgress

Saved(resp) == resp.status = 200 /\ Validating(resp.did) /\ resp.did.calls.upd = 1

(* Two validations that ran at the same time have both saved, to           *)
(* different targets of the same record.                                   *)
BothSaved ==
    /\ last.status # 0
    /\ Saved(last)
    /\ Saved(last.earlier)
    /\ last.did.date = last.earlier.did.date
    /\ Target(last.did) # Target(last.earlier.did)

(* C11: when two validations with different targets in one record run at  *)
(* the same time and both save, the record holds the result of each, and   *)
(* differs from the record they found in those two fields alone.           *)
C11_BothResultsKept ==
    BothSaved =>
        LET a == last.earlier.did
            b == last.did
            d == b.date
        IN /\ StoredAt(cache, a) = ResultOf(a)
           /\ StoredAt(cache, b) = ResultOf(b)
           /\ \E x \in {ResultOf(a)}, y \in {ResultOf(b)} :
                 cache[d] = IF a.route = "validate-star" /\ b.route = "validate-star"
                            THEN [b.old[d] EXCEPT
                                    !.quiz.resume.questions[a.idx + 1].userProgress[a.step] = x,
                                    !.quiz.resume.questions[b.idx + 1].userProgress[b.step] = y]
                            ELSE IF a.route = "validate-code" /\ b.route = "validate-code"
                            THEN [b.old[d] EXCEPT
                                    !.quiz.technical.questions[a.idx + 1].userProgress = x,
                                    !.quiz.technical.questions[b.idx + 1].userProgress = y]
                            ELSE IF a.route = "validate-star"
                            THEN [b.old[d] EXCEPT
                                    !.quiz.resume.questions[a.idx + 1].userProgress[a.step] = x,
                                    !.quiz.technical.questions[b.idx + 1].userProgress = y]
                            ELSE [b.old[d] EXCEPT
                                    !.quiz.technical.questions[a.idx + 1].userProgress = x,
                                    !.quiz.resume.questions[b.idx + 1].userProgress[b.step] = y]

C11_Witness ==
    /\ BothSaved
    /\ last.did.route = "validate-star"
    /\ last.earlier.did.route = "validate-star"
    /\ last.did.idx = last.earlier.did.idx
    /\ last.did.old = last.earlier.did.old

CodeTargetExisted(q) ==
    /\ q.route = "validate-code"
    /\ q.validation # Null
    /\ SavesProgress(q.date, q.idx)
    /\ HadRecord(q, q.date)
    /\ HasQuestion(q.old[q.date].quiz.technical.questions, q.idx)

(* C12: a validate-code for an existing coding question is never refused   *)
(* for what other questions or earlier submissions hold, and after any     *)
(* validation has saved, its target holds exactly the result of that       *)
(* validation, with nothing of what the target held before.                *)
C12_LastWriteWins ==
    /\ (last.status # 0 /\ CodeTargetExisted(last.did))
          => \/ last.status = 200 /\ last.did.calls.upd = 1
             \/ last.status = 500 /\ last.body = "CacheUnavailable"
    /\ (last.status # 0 /\ Saved(last)) => StoredAt(cache, last.did) = ResultOf(last.did)

C12_Witness ==
    /\ last.status # 0
    /\ Saved(last)
    /\ CodeTargetExisted(last.did)
    /\ last.did.idx = 1
    /\ StoredAt(last.did.old, last.did) # Null
    /\ StoredAt(last.did.old, last.did) # ResultOf(last.did)
    /\ last.did.old[last.did.date].quiz.technical.questions[1].userProgress = Null

(***************************************************************************)
(* Properties of retrieval.                                                *)
(***************************************************************************)
UsedFallback(q) == q.route = "generate" /\ q.calls.search = 4

(* C13: when the resume search found nothing and the knowledge base has a  *)
(* resume record for the fallback query to return, the generation does not *)
(* fail for want of a resume item, and the resume item it goes on with is  *)
(* that record.                                                            *)
C13_FallbackUsed ==
    /\ \A r \in Slots :
          (UsedFallback(req[r]) /\ kb.resume # {})
              => req[r].pc \in {"synth", "persist"} /\ req[r].res \in kb.resume
    /\ (last.status # 0 /\ UsedFallback(last.did) /\ kb.resume # {})
          => IF last.status = 500
             THEN last.body = "InsufficientContext" => "resume" \notin last.did.starved
             ELSE last.did.res \in kb.resume /\ last.body.resume.context = last.did.res

C13_Witness ==
    /\ Returned("generate")
    /\ last.status = 200
    /\ UsedFallback(last.did)
    /\ last.body.resume.context \in kb.resume

(* C14: a generation that fails for want of context names, in its error,   *)
(* every category left without a candidate and no other.                   *)
C14_NamesEveryStarved ==
    (Returned("generate") /\ last.status = 500 /\ last.body = "InsufficientContext")
        => last.did.named = last.did.starved

(***************************************************************************)
(* Properties of retention and history.                                    *)
(***************************************************************************)
Hit(resp) ==
    /\ resp.status = 200
    /\ resp.did.route = "generate"
    /\ resp.did.calls.get = 1
    /\ resp.did.calls.put = 0

Persisted(resp) ==
    /\ resp.status = 200
    /\ resp.did.route = "generate"
    /\ ~resp.did.force
    /\ resp.did.calls.put = 1

(* Two generations without force that ran at the same time for one day,    *)
(* both from a table with no record for it, have both persisted.           *)
BothPersisted ==
    /\ last.status # 0
    /\ Persisted(last)
    /\ Persisted(last.earlier)
    /\ last.did.today = last.earlier.did.today
    /\ last.did.old[last.did.today] = NoItem
    /\ last.earlier.did.old[last.did.today] = NoItem

(* C16: when two generations without force for the same day both miss,     *)
(* both synthesize and both persist, the table holds one record for the    *)
(* day and its quiz is the one the later of the two writes stored.         *)
C16_LaterPersistWins ==
    BothPersisted =>
        /\ last.did.calls.llm = Cardinality(Branches)
        /\ last.earlier.did.calls.llm = Cardinality(Branches)
        /\ cache[last.did.today] # NoItem
        /\ cache[last.did.today].quiz = last.body

C16_Witness == BothPersisted /\ last.body # last.earlier.body

(* A step in which a generation without force writes over a stored record. *)
Replaces(r) ==
    /\ req[r].route = "generate"
    /\ req[r].pc = "persist"
    /\ ~req[r].force
    /\ cache[req[r].today] # NoItem
    /\ cache'[req[r].today] # cache[req[r].today]

(* C17 as stated: no generation without force ever writes over a stored    *)
(* record, in any interleaving.                                            *)
C17_NeverReplaced == [][\A r \in Slots : ~Replaces(r)]_vars

(* C17: a generation without force writes over a stored record only when   *)
(* that record was stored after the generation began; a record that was    *)
(* stored before a generation without force began is not replaced by it.   *)
C17_ReplacedOnlyByOverlap ==
    [][\A r \in Slots : Replaces(r) => req[r].old[req[r].today] = NoItem]_vars

C17_Witness ==
    /\ last.status # 0
    /\ Persisted(last)
    /\ Persisted(last.earlier)
    /\ last.did.today = last.earlier.did.today
    /\ last.did.old[last.did.today] = NoItem
    /\ cache[last.did.today].quiz # last.earlier.body

(* C18: every record a generation persists holds a full batch of STAR       *)
(* questions and a full batch of coding questions (five and three in the   *)
(* prompts, MaxQuestions here), whatever the completions replied.          *)
C18_FullBatches ==
    \A d \in Days :
        cache[d] # NoItem
            => /\ Len(cache[d].quiz.resume.questions) = MaxQuestions
               /\ Len(cache[d].quiz.technical.questions) = MaxQuestions

Cleaned == last.status # 0 /\ last.did.route = "completion"

Braces == {Open, Close}

(* The text is an object between two runs of tokens that hold no brace,    *)
(* and it holds no fence marker; the object is at positions i..k.          *)
Wrapped(text, i, k) ==
    /\ \A n \in 1..Len(text) : text[n] \notin Markers
    /\ IsObject(SubSeq(text, i, k))
    /\ \A n \in (1..(i - 1)) \cup ((k + 1)..Len(text)) : text[n] \notin Braces

(* What the recovery steps leave to parse: the interior of the fenced      *)
(* block if there is one, from its first opening to its last closing       *)
(* brace, as it is or with its control characters replaced by spaces.      *)
Recoverable(text) ==
    LET inner == Unfenced(text)
        firstBrace == indexOf(inner, Open)
        lastBrace == lastIndexOf(inner, Close)
    IN /\ firstBrace # NotFound
       /\ lastBrace # NotFound
       /\ firstBrace < lastBrace
       /\ \/ Parses(SubSeq(inner, firstBrace, lastBrace))
          \/ Parses(Spaced(SubSeq(inner, firstBrace, lastBrace)))

StarGraded == Returned("validate-star") /\ last.did.validation # Null

TableFailed == last.status = 500 /\ last.body = "CacheUnavailable"

StarTarget(c, q) == c[q.date].quiz.resume.questions[q.idx + 1].userProgress[q.step]

(* C21 as stated: a graded validate-star whose table call did not itself   *)
(* fail returns the grading result, and has written its segment exactly    *)
(* when the request carried a date and a question index.                   *)
C21_WritesIffSupplied ==
    (StarGraded /\ ~TableFailed) =>
        /\ last.did.calls.llm = 1
        /\ last.status = 200
        /\ last.body = last.did.validation
        /\ IF last.did.date # NoDate /\ last.did.idx # NoIndex
           THEN /\ cache[last.did.date] # NoItem
                /\ HasQuestion(cache[last.did.date].quiz.resume.questions, last.did.idx)
                /\ StarTarget(cache, last.did)
                     = StarSegment(last.did.answer, last.did.validation)
           ELSE cache = last.did.old

(* C21: a validate-star makes exactly one grading call; it issues the      *)
(* update exactly when it was graded and the request carried a date and a  *)
(* question index, index 0 included; a response of 200 carries the grading *)
(* result; the table changes only by an update that succeeded, which       *)
(* needs the record and the question to exist, and then holds the segment. *)
C21_WritesWhenTargetExists ==
    Returned("validate-star") =>
        LET q == last.did
        IN /\ q.calls.llm = 1
           /\ q.calls.upd = 1 <=> (q.validation # Null /\ q.date # NoDate /\ q.idx # NoIndex)
           /\ q.calls.upd \in {0, 1}
           /\ last.status = 200 => last.body = q.validation
           /\ (q.calls.upd = 0 /\ q.validation # Null) => last.status = 200
           /\ cache # q.old => last.status = 200 /\ q.calls.upd = 1
           /\ (last.status = 200 /\ q.calls.upd = 1)
                 => /\ HadRecord(q, q.date)
                    /\ HasQuestion(q.old[q.date].quiz.resume.questions, q.idx)
                    /\ StarTarget(cache, q) = StarSegment(q.answer, q.validation)

C21_Witness ==
    /\ Returned("validate-star")
    /\ last.status = 200
    /\ last.did.idx = 0
    /\ last.did.calls.upd = 1
    /\ cache # last.did.old

Rank(pc) ==
    CASE pc = "check" -> 1 [] pc = "embed" -> 2 [] pc = "search" -> 3
      [] pc = "fallback" -> 4 [] pc = "synth" -> 5 [] pc = "persist" -> 6

(* What the calls an invocation has made so far say about its stages.      *)
InOrder(q) ==
    /\ q.calls.get \in {0, 1}
    /\ q.calls.embed \in {0, 2}
    /\ q.calls.search \in {0, 3, 4}
    /\ q.calls.llm \in {0, Cardinality(Branches)}
    /\ q.calls.put \in {0, 1}
    /\ q.force => q.calls.get = 0
    /\ q.calls.embed > 0 => (q.force \/ q.calls.get = 1)
    /\ q.calls.search > 0 => q.calls.embed = 2
    /\ q.calls.llm > 0 => q.calls.search \in {3, 4}
    /\ q.calls.put > 0 => (q.calls.llm = Cardinality(Branches) /\ q.ok = Branches)

(* A step of a generation that stays in flight: it moves to a later stage, *)
(* or one more completion of the synthesis stage resolves.                 *)
Advances(r) ==
    \/ Rank(req'[r].pc) > Rank(req[r].pc)
    \/ /\ req[r].pc = "synth"
       /\ req'[r].pc = "synth"
       /\ req[r].ok # req'[r].ok
       /\ req[r].ok \subseteq req'[r].ok
       /\ req'[r].calls = req[r].calls

(* C22: the stages of a generation follow one another in the order cache  *)
(* read, embedding, searches, fallback, completions, put: a stage's calls  *)
(* are made only when the calls of the stages before it have been made,    *)
(* the put only when all five completions have resolved, and no invocation *)
(* goes back to a stage or makes its calls again.                          *)
C22_StagesInOrder ==
    /\ [](\A r \in Slots : req[r].route = "generate" => InOrder(req[r]))
    /\ [](Returned("generate") => InOrder(last.did))
    /\ [][\A r \in Slots :
            (req[r].route = "generate" /\ req'[r].route = "generate" /\ req'[r] # req[r])
                => Advances(r)]_vars

C22_Witness ==
    /\ Returned("generate")
    /\ last.status = 200
    /\ ~last.did.force
    /\ last.did.calls = [get |-> 1, embed |-> 2, search |-> 4, llm |-> 5, put |-> 1, upd |-> 0]

(* The generations that have made their searches: those in flight and the *)
(* one that has returned.                                                  *)
Searched ==
    {req[r] : r \in {x \in Slots : req[x].route = "generate"}}
        \cup (IF Returned("generate") THEN {last.did} ELSE {})

(* C23: the fallback query is made exactly when the resume similarity      *)
(* search found no row, whatever the leetcode and note searches found; it  *)
(* returns one row at most; and when the similarity search found rows the  *)
(* resume row chosen is one of them.                                       *)
C23_FallbackOnlyForResume ==
    \A q \in {x \in Searched : x.resumeRows # Null} :
        /\ q.calls.search = 4 => q.resumeRows.rows = {}
        /\ q.resumeRows.rows = {} => (q.calls.search = 4 \/ q.pc = "fallback")
        /\ q.finalResumeRows # Null
              => /\ q.calls.search = 4
                 /\ Cardinality(q.finalResumeRows.rows) <= FallbackLimit
                 /\ q.finalResumeRows.rows \subseteq kb.resume
        /\ q.res # ""
              => IF q.resumeRows.rows # {}
                 THEN q.res \in q.resumeRows.rows
                 ELSE q.res \in q.finalResumeRows.rows

C23_Witness ==
    /\ Returned("generate")
    /\ last.status = 200
    /\ last.did.resumeRows = [rows |-> {}]
    /\ last.did.finalResumeRows # Null
    /\ Cardinality(kb.resume) > FallbackLimit

(* The text holds a block fenced with the json label at positions i..k,    *)
(* the first such block, and the interior of the block is an object.       *)
FencedJson(text, i, k) ==
    /\ i < k
    /\ text[i] = JsonFence
    /\ text[k] = Fence
    /\ \A n \in 1..(i - 1) : text[n] # JsonFence
    /\ IsObject(SubSeq(text, i + 1, k - 1))

(* C24: from a text that holds a block fenced with the json label whose    *)
(* interior is a parseable object, cleanResponse returns that object,      *)
(* whatever its string values hold and whatever surrounds the block.       *)
C24_FencedObjectReturned ==
    Cleaned =>
        \A i \in 1..Len(last.did.text), k \in 1..Len(last.did.text) :
            FencedJson(last.did.text, i, k)
                => /\ last.status = 200
                   /\ last.body = SubSeq(last.did.text, i + 1, k - 1)

(* The same, for objects none of whose string values holds a fence marker. *)
FencedPlainObjectReturned ==
    Cleaned =>
        \A i \in 1..Len(last.did.text), k \in 1..Len(last.did.text) :
            (/\ FencedJson(last.did.text, i, k)
             /\ \A n \in (i + 1)..(k - 1) : last.did.text[n] # Snippet)
                => /\ last.status = 200
                   /\ last.body = SubSeq(last.did.text, i + 1, k - 1)

(* The text with every member that holds a control character replaced by  *)
(* the member that holds a space instead.                                  *)
Flattened(text) ==
    [i \in 1..Len(text) |-> IF text[i] = "multiline" THEN "flat" ELSE text[i]]

HasControl(text) == \E i \in 1..Len(text) : text[i] = "multiline"

(* The text is an object but for control characters in string values.      *)
OnlyControlDefect(text) == HasControl(text) /\ IsObject(Flattened(text))

(* C25: a text that is an object but for literal control characters in     *)
(* its string values is returned as that object with a space for each of   *)
(* them; a text that parses as it is is returned unchanged; and when the   *)
(* text parses neither as it is nor after the replacement, cleanResponse   *)
(* throws without a further attempt.                                       *)
C25_ControlCharsSpaced ==
    Cleaned =>
        LET text == last.did.text
            narrowed == BetweenBraces(Unfenced(text))
        IN /\ OnlyControlDefect(text)
                => last.status = 200 /\ last.body = Flattened(text)
           /\ (last.status = 200 /\ ~HasControl(last.body))
                => last.body \in {narrowed, Flattened(narrowed)}
           /\ Parses(narrowed) => last.status = 200 /\ last.body = narrowed
           /\ (~Parses(narrowed) /\ ~Parses(Flattened(narrowed))) => last.status = 500

(* The same, for texts none of whose string values holds a fence marker.   *)
UnfencedControlCharsSpaced ==
    (/\ Cleaned
     /\ OnlyControlDefect(last.did.text)
     /\ \A n \in 1..Len(last.did.text) : last.did.text[n] # Snippet)
            => (last.status = 200 /\ last.body = Flattened(last.did.text))

(***************************************************************************)
(* Properties of the legacy route and of the expiry.                       *)
(***************************************************************************)
HasOpenEnded(item, section) == item # NoItem /\ "open_ended" \in DOMAIN item.quiz[section]

(* The record with the answer and the feedback set in the open-ended field *)
(* of one section, and nothing else changed.                               *)
WithAnswer(item, section, ua, fb) ==
    LET oe == item.quiz[section].open_ended
        answered == [k \in DOMAIN oe \cup {"user_answer", "feedback"} |->
                        IF k = "user_answer" THEN ua ELSE IF k = "feedback" THEN fb ELSE oe[k]]
    IN IF section = "resume"
       THEN [item EXCEPT !.quiz.resume.open_ended = answered]
       ELSE [item EXCEPT !.quiz.technical.open_ended = answered]

Puts(r) ==
    /\ req[r].route = "generate"
    /\ req[r].pc = "persist"
    /\ last'.status = 200

(* C26: the item a put stores expires 604800 seconds after the time of the *)
(* put, and a step that is no put (an update of validate-star, of          *)
(* validate-code or of submit among them) leaves the expiry of every       *)
(* stored item as it was.                                                  *)
C26_ExpirySetByPutOnly ==
    /\ [][\A r \in Slots :
            Puts(r) => /\ cache'[req[r].today] # NoItem
                       /\ cache'[req[r].today].ttl = now + 604800]_vars
    /\ [][(\A r \in Slots : ~Puts(r))
            => \A d \in Days :
                  /\ cache[d] = NoItem <=> cache'[d] = NoItem
                  /\ cache[d] # NoItem => cache'[d].ttl = cache[d].ttl]_vars

(* A partial update has changed a record whose expiry is no longer seven   *)
(* days ahead.                                                             *)
C26_Witness ==
    /\ last.status = 200
    /\ last.did.route \in {"validate-star", "validate-code", "submit"}
    /\ last.did.calls.upd = 1
    /\ cache # last.did.old
    /\ now > 0
    /\ cache[last.did.date].ttl = 604800

Fresh == Returned("generate") /\ last.status = 200 /\ last.did.calls.put = 1

(* C27: in the record a put has just stored, every STAR question has the   *)
(* four steps of its progress null and every coding question has null      *)
(* progress, whether or not the question came with a progress field.       *)
C27_ProgressStartsNull ==
    Fresh =>
        LET quiz == cache[last.did.today].quiz
        IN /\ \A i \in DOMAIN quiz.resume.questions :
                 /\ DOMAIN quiz.resume.questions[i].userProgress = StepSet
                 /\ \A step \in StepSet : quiz.resume.questions[i].userProgress[step] = Null
           /\ \A i \in DOMAIN quiz.technical.questions :
                 quiz.technical.questions[i].userProgress = Null

C27_Witness ==
    /\ Fresh
    /\ "userProgress" \in DOMAIN Synthesized(last.body.leetcode.ai_question)
    /\ Len(cache[last.did.today].quiz.resume.questions) > 0
    /\ Len(cache[last.did.today].quiz.technical.questions) > 0

(* C28: every segment and every code result stored in the table has a      *)
(* score that is a number from 0 to 10.                                    *)
C28_ScoresInRange ==
    \A quiz \in Stored(cache) :
        \A result \in (StarProgress(quiz) \cup CodeProgress(quiz)) \ {Null} :
            IsNumber(result.score) /\ result.score \in 0..10

Questions(q, c) ==
    IF q.route = "validate-star"
    THEN c[q.date].quiz.resume.questions
    ELSE c[q.date].quiz.technical.questions

(* A graded validation with date and index whose day had no record or      *)
(* whose index was outside the record's list of questions.                 *)
NoTarget ==
    /\ last.status # 0
    /\ Validating(last.did)
    /\ last.did.validation # Null
    /\ last.did.date # NoDate
    /\ last.did.idx # NoIndex
    /\ \/ ~HadRecord(last.did, last.did.date)
       \/ ~HasQuestion(Questions(last.did, last.did.old), last.did.idx)

(* C30: a validation never creates an item and never changes the number of *)
(* questions of a record; when its day has no record or its index is       *)
(* outside the list, the update is rejected, the response is an error      *)
(* without the grading result, and the table is unchanged.                 *)
C30_NoTargetRejected ==
    /\ (last.status # 0 /\ Validating(last.did)) =>
          \A d \in Days :
              /\ last.did.old[d] = NoItem <=> cache[d] = NoItem
              /\ cache[d] # NoItem =>
                    /\ Len(cache[d].quiz.resume.questions)
                         = Len(last.did.old[d].quiz.resume.questions)
                    /\ Len(cache[d].quiz.technical.questions)
                         = Len(last.did.old[d].quiz.technical.questions)
    /\ NoTarget =>
          /\ last.status = 500
          /\ last.body \in {"ValidationException", "CacheUnavailable"}
          /\ last.did.calls.upd = 1
          /\ cache = last.did.old

C30_Witness ==
    /\ NoTarget
    /\ last.body = "ValidationException"
    /\ HadRecord(last.did, last.did.date)
    /\ last.did.route = "validate-star"

(***************************************************************************)
(* Properties of the dispatch.                                             *)
(***************************************************************************)
(* C31: an invocation is in the retrieval, synthesis or persist stage, or  *)
(* has put a record, only if its route key is POST /generate.              *)
C31_OnlyGenerateRoute ==
    /\ \A r \in Slots :
          (req[r].route = "generate" /\ req[r].pc \in {"embed", "search", "fallback", "synth", "persist"})
              => req[r].routeKey = "POST /generate"
    /\ (Returned("generate") /\ last.did.calls.put = 1)
          => last.did.routeKey = "POST /generate"

(***************************************************************************)
(* Properties of the drills' submissions.                                  *)
(***************************************************************************)
StarCleared == ui.submitting /\ ~ui'.submitting

CodeCleared == ui.coding.submitting /\ ~ui'.coding.submitting

Progress(questions) == [i \in DOMAIN questions |-> questions[i].userProgress]

LocalProgress == <<Progress(ui.localQuestions), Progress(ui.coding.localQuestions)>>

FlagsCleared ==
    /\ ui.submitting ~> ~ui.submitting
    /\ ui.coding.submitting ~> ~ui.coding.submitting

OneInFlight ==
    /\ Cardinality(Pending("validate-star")) <= 1
    /\ Cardinality(Pending("validate-code")) <= 1
    /\ Pending("validate-star") # {} => ui.submitting
    /\ Pending("validate-code") # {} => ui.coding.submitting
    /\ \A r \in Slots, step \in StepSet, answer \in Answers :
          ui.submitting => ~ENABLED validateStep(r, step, answer)
    /\ \A r \in Slots, answer \in Answers :
          ui.coding.submitting => ~ENABLED validateCode(r, answer)

FailureKeepsProgress ==
    /\ (StarCleared /\ (ui'.alerted \/ ResponseTo(last, "validate-star").status # 200))
          => ui'.alerted /\ LocalProgress' = LocalProgress
    /\ (CodeCleared /\ (ui'.coding.alerted \/ ResponseTo(last, "validate-code").status # 200))
          => ui'.coding.alerted /\ LocalProgress' = LocalProgress

(* C32: in both drills a submission that has set the submitting flag       *)
(* clears it again, whether the request succeeds, is answered with a       *)
(* status that is not OK, or throws; while the flag is set the drill's     *)
(* submit button cannot start another request, so the drill has at most    *)
(* one request with the handler; and a submission that fails leaves the    *)
(* local progress of every question as it was.                             *)
C32_SubmissionsEnd ==
    /\ FlagsCleared
    /\ []OneInFlight
    /\ [][FailureKeepsProgress]_vars

(* C32 witness: the STAR drill's submission has failed and cleared its     *)
(* flag while the coding drill's request is with the handler.              *)
C32_Witness ==
    /\ ui.mounted
    /\ ui.alerted
    /\ ~ui.submitting
    /\ ui.coding.submitting
    /\ Pending("validate-code") # {}

(***************************************************************************)
(* Properties of the STAR drill's progress.                                *)
(***************************************************************************)
LocalSegment(u, i, step) == u.localQuestions[i + 1].userProgress[step]

Indices == 0..(MaxQuestions - 1)

PassedNotOffered ==
    \A step \in StepSet :
        isPassed(LocalSegment(ui, ui.activeQuestionIndex, step))
            => \A r \in Slots, answer \in Answers : ~ENABLED validateStep(r, step, answer)

PassedKept ==
    \A i \in Indices, step \in StepSet :
        isPassed(LocalSegment(ui, i, step))
            => LocalSegment(ui, i, step)' = LocalSegment(ui, i, step)

UnlockedKept ==
    \A i \in Indices, step \in StepSet :
        ~isStepLocked(ui.localQuestions, i, step)
            => ~isStepLocked(ui'.localQuestions, i, step)

(* A segment with a score of at least 8 cannot be submitted again and is   *)
(* never written again by the drill.                                       *)
PassedSegmentKept == []PassedNotOffered /\ [][PassedKept]_vars

(* C33: progress in the STAR drill is monotone: a step whose segment has a *)
(* score of at least 8 cannot be submitted again, so a passed segment is   *)
(* never overwritten by the drill, and a step of a question that is        *)
(* unlocked never becomes locked again.                                    *)
C33_ProgressMonotone ==
    /\ []PassedNotOffered
    /\ [][PassedKept]_vars
    /\ [][UnlockedKept]_vars

(***************************************************************************)
(* The drill's copy against the stored record.                             *)
(***************************************************************************)
(* The drill has read an OK response to its last submission.               *)
StarSucceeded ==
    /\ ui.mounted
    /\ ~ui.submitting
    /\ ~ui.alerted
    /\ Returned("validate-star")
    /\ last.status = 200

PersistedQuestions == cache[ui.date].quiz.resume.questions

PersistedSegment(i, step) == PersistedQuestions[i + 1].userProgress[step]

SameSegment ==
    LocalSegment(ui, last.did.idx, last.did.step)
        = PersistedSegment(last.did.idx, last.did.step)

NextStepLockAgrees ==
    \A step \in StepSet \ {"S"} :
        PrevStep(step) = last.did.step
            => isStepLocked(ui.localQuestions, last.did.idx, step)
                 = isStepLocked(PersistedQuestions, last.did.idx, step)

AllLocksAgree ==
    \A i \in Indices, step \in StepSet :
        isStepLocked(ui.localQuestions, i, step)
            = isStepLocked(PersistedQuestions, i, step)

IsPrefix(p, text) == Len(p) <= Len(text) /\ SubSeq(text, 1, Len(p)) = p

ToggledOff == ui.isActive /\ toggleListening

ToggledOn == ~ui.isActive /\ toggleListening

Reset == ui.isActive /\ ~ui'.isActive

(* The render that follows the toggle-on leaves isActive set.              *)
ActiveOnceToggled == ToggledOn => ui'.isActive

ActiveUntilStopped == Reset => (ToggledOff \/ (ui'.listened /\ ~ui'.listening))

NoResetBeforeListening == (Reset /\ ~ToggledOff) => ui'.listened

BaseIsPrefix == (ui.isActive /\ ui.dictated) => IsPrefix(ui.baseTextRef, ui.textValue)

(* Once dictation is toggled on, isActive falls only with a toggle-off or  *)
(* after listening has been true and is false; the cleanup effect never    *)
(* resets it before listening has been true.                               *)
ActiveWhileStarting ==
    [][ActiveOnceToggled /\ ActiveUntilStopped /\ NoResetBeforeListening]_vars

(* C35: once dictation is toggled on, isActive stays true until the user   *)
(* toggles it off or listening has been true and is false again; the       *)
(* cleanup effect never resets isActive before listening has been true;    *)
(* and the text typed before dictation started is a prefix of the text the *)
(* dictation writes.                                                       *)
C35_DictationKeepsState ==
    /\ [][ActiveOnceToggled]_vars
    /\ [][ActiveUntilStopped]_vars
    /\ [][NoResetBeforeListening]_vars
    /\ []BaseIsPrefix

Listed == Returned("history") /\ last.status = 200

Min(a, b) == IF a <= b THEN a ELSE b

HistoryStep ==
    \E r \in Slots : req[r] # req'[r] /\ "history" \in {req[r].route, req'[r].route}

(* C20: a history invocation writes nothing, and what it returns is the    *)
(* quizzes of the stored items with the greatest keys, seven at most, in   *)
(* strictly descending key order.                                          *)
C20_ListRecent ==
    /\ [][HistoryStep => cache' = cache]_vars
    /\ [](Listed =>
            LET c == last.did.old
                body == last.body
            IN /\ Len(body) = Min(HistoryLimit, Cardinality(Present(c)))
               /\ \A i \in 1..Len(body) :
                     /\ body[i].date \in Present(c)
                     /\ body[i] = c[body[i].date].quiz
               /\ \A i \in 1..(Len(body) - 1) : body[i].date > body[i + 1].date
               /\ \A d \in Present(c) :
                     (\A i \in 1..Len(body) : body[i].date # d)
                         => \A i \in 1..Len(body) : d < body[i].date)

C20_Witness ==
    /\ Listed
    /\ Cardinality(Present(last.did.old)) > HistoryLimit
    /\ Len(last.body) = HistoryLimit

====
